---- MODULE Spec2Model ----
(***************************************************************************)
(* A state-machine model of fhzh123/text_distortion_augment:               *)
(*   - TransformerModel.generate           (src/model/model.py)            *)
(*   - augmenting(args)                    (src/task/augmenting.py)        *)
(*   - training(args)                      (src/task/training.py)          *)
(* One behaviour runs one of the three (variable task); the variables of   *)
(* the other two keep their idle values.                                   *)
(*                                                                         *)
(* Tensors.  generate is modelled on tensor SHAPES (a sequence of          *)
(* dimension sizes).  augmenting is modelled on the VALUES of one batch    *)
(* row: every tensor operation of its loop acts on each batch row          *)
(* independently, so a tensor variable holds the row of an arbitrary       *)
(* example of the batch, as a sequence over the position axis (a tensor    *)
(* without position axis, or with a singleton one, is a sequence of        *)
(* length 1 and broadcasts over positions).  The hidden dimension is one   *)
(* integer.  The networks (encoder, latent encoder, classifier, decoder)   *)
(* are opaque: their outputs are drawn from small sets.                    *)
(*                                                                         *)
(* A raised Python exception ends the run: pc becomes "raised" and the     *)
(* exception's name is kept.                                               *)
(***************************************************************************)
EXTENDS Integers, Sequences, FiniteSets, TLC

\* ------------------------------------------------------------------ bounds
MaxBatchSize == 2        \* args.batch_size ranges over 1..MaxBatchSize
MaxExamples == 2         \* examples of the train split, 0..MaxExamples
MaxSrcLen == 2           \* generate: columns of src_input_ids, 1..MaxSrcLen
VocabNum == 3            \* generate: size of the vocabulary axis (a stand-in)

\* ------------------------------------------------------- program constants
GenerateSteps == 360     \* model.py:117   for i in range(360)
MaxLength == 360         \* model.py:56    PositionalEmbedding(max_len=360)

Tasks == {"generate", "augmenting", "training", "target_label", "setup",
          "decoder_input", "aug_batch", "main",
          "cls_input"}

VARIABLES
  task,          \* which function this behaviour runs
  \* ---- TransformerModel.generate
  g_pc,          \* "idle" | "enter" | "loop" | "returned" | "raised"
  g_exc,         \* name of the exception generate raised, or "none"
  g_src,         \* shape of src_input_ids, <<batch, length>>
  g_i,           \* the loop variable i of range(360)
  g_inp          \* shape of inp_

gvars == <<g_pc, g_exc, g_src, g_i, g_inp>>

\* ------------------------------------------------------ tensor shape algebra
\* shift_tokens_right allocates input_ids.new_zeros(input_ids.shape): the shape
\* of its result is the shape of its input.
ShiftedShape(shape) == shape

\* t[:, 0].unsqueeze(1): column 0 of a 2-D tensor, kept as a column.
FirstColumn(shape) == <<shape[1], 1>>

\* the decoder keeps the shape of its input ids and adds the hidden axis; the
\* linear head turns the hidden axis into the vocabulary axis.
DecoderOutShape(inp) == <<inp[1], inp[2], VocabNum>>

\* t[:, -1]: the last entry of axis 1, axis 1 dropped.
LastOfAxis1(shape) == <<shape[1], shape[3]>>

\* torch.max(t, dim=1) on a 2-D tensor returns (values, indices), each
\* without axis 1.
MaxDim1Shape(shape) == <<shape[1]>>

\* torch.cat([a, b], dim=1): both tensors must have the same number of
\* dimensions and agree on every axis but axis 1, otherwise RuntimeError.
CatDim1Ok(a, b) ==
  /\ Len(a) = Len(b)
  /\ Len(a) >= 2
  /\ \A k \in 1..Len(a) : k # 2 => a[k] = b[k]

CatDim1(a, b) == [k \in 1..Len(a) |-> IF k = 2 THEN a[2] + b[2] ELSE a[k]]

\* ------------------------------------------------ TransformerModel.generate
GenIdle ==
  /\ g_pc = "idle" /\ g_exc = "none" /\ g_src = <<>> /\ g_i = 0 /\ g_inp = <<>>

\* model.py:105-115: the call, with a valid batch (at least one row and one
\* column); inp_ is the first column of the shifted ids.
GenerateEnter ==
  /\ task = "generate" /\ g_pc = "enter"
  /\ g_inp' = FirstColumn(ShiftedShape(g_src))
  /\ g_i' = 0
  /\ g_pc' = "loop"
  /\ UNCHANGED <<g_exc, g_src>>

\* model.py:117-132: the loop head and one iteration, or the return.
\* next_word is the index half of torch.max(decoder_out[:, -1], dim=1), a 1-D
\* tensor; it is concatenated to the 2-D inp_ on axis 1.
GenerateLoop ==
  /\ task = "generate" /\ g_pc = "loop"
  /\ IF g_i < GenerateSteps
     THEN LET decoder_out == DecoderOutShape(g_inp)
              next_word == MaxDim1Shape(LastOfAxis1(decoder_out))
          IN IF CatDim1Ok(g_inp, next_word)
             THEN /\ g_inp' = CatDim1(g_inp, next_word)
                  /\ g_i' = g_i + 1
                  /\ UNCHANGED <<g_pc, g_exc>>
             ELSE /\ g_pc' = "raised"
                  /\ g_exc' = "RuntimeError"
                  /\ UNCHANGED <<g_i, g_inp>>
     ELSE /\ g_pc' = "returned"
          /\ UNCHANGED <<g_exc, g_i, g_inp>>
  /\ UNCHANGED g_src

\* ----------------------------------------------------------- value domains
\* outputs of the opaque networks, per element of a tensor row
Vals == {0, 1}
\* gradient of the classifier loss, per element of the hidden state
GradVals == {0, 1}
\* aug_model.encoder_out_ratio and aug_model.latent_out_ratio, in units of a
\* common fraction (the code holds floats)
Ratios == {0, 1, 2}
\* positions of a source sequence (args.src_max_len columns)
Positions == {1, 2}

\* ------------------------------------------------------- tensor row algebra
RECURSIVE SeqMax(_)
SeqMax(s) ==
  IF Len(s) = 1 THEN s[1]
  ELSE LET m == SeqMax(Tail(s)) IN IF s[1] >= m THEN s[1] ELSE m

\* c * t
Scale(c, t) == [p \in 1..Len(t) |-> c * t[p]]

\* broadcasting of two rows: a singleton position axis stretches to the other
BLen(a, b) == IF Len(a) >= Len(b) THEN Len(a) ELSE Len(b)
At(t, p) == IF Len(t) = 1 THEN t[1] ELSE t[p]
Add(a, b) == [p \in 1..BLen(a, b) |-> At(a, p) + At(b, p)]
Sub(a, b) == [p \in 1..BLen(a, b) |-> At(a, p) - At(b, p)]

\* t.max(dim=1)[0]: the maximum over the position axis, axis dropped
MaxOverPositions(t) == <<SeqMax(t)>>

\* rows an opaque network can return
EncoderRows == [1..Cardinality(Positions) -> Vals]   \* encoder_out, (len, hidden)
LatentRows == [1..1 -> Vals]                         \* latent_out,  (hidden)
GradRows(like) == [1..Len(like) -> GradVals]          \* same shape as the leaf

\* ------------------------------------------------------------------- files
\* os.path.join(...) of the three tasks, as path components; the components
\* that come from args are symbolic.
AugCheckpointFile ==      \* training.py:231
  <<"model_save_path", "data_name", "model_type", "aug_checkpoint03.pth.tar">>
ClsCheckpointFile ==      \* training.py:328
  <<"model_save_path", "data_name", "model_type", "cls_checkpoint03.pth.tar">>
ResumeFile ==             \* training.py:135-137
  <<"model_save_path", "data_name",
    "checkpoint_src_{src_vocab_size}_trg_{trg_vocab_size}_v_{variational_mode}_p_{parallel}.pth.tar">>
AugmentingFile ==         \* augmenting.py:103
  <<"model_save_path", "data_name", "model_type", "checkpoint.pth.tar">>

Paths == {AugCheckpointFile, ClsCheckpointFile, ResumeFile, AugmentingFile}

\* A file is absent, or holds a pickled dict: a set of <<key, value>> pairs.
NoFile == [exists |-> FALSE, dict |-> {}]
FileOf(d) == [exists |-> TRUE, dict |-> d]
HasKey(d, k) == \E kv \in d : kv[1] = k
Lookup(d, k) == (CHOOSE kv \in d : kv[1] = k)[2]
KeysOf(d) == {kv[1] : kv \in d}

\* What a run of the augmenter-training task (imported by main.py:6, not part
\* of the sources at hand) leaves for augmenting to load, by section 6 of the
\* specification: epoch, both models' parameters, optimizer and scheduler.
PriorAugmenterCheckpoint ==
  {<<"epoch", 1>>, <<"aug_model", 0>>, <<"cls_model", 0>>,
   <<"optimizer", 0>>, <<"scheduler", 0>>}

\* -------------------------------------------------------------- augmenting
VARIABLES
  fs,                       \* the files under model_save_path
  reads,                    \* torch.load calls so far: <<path, keys read>>
  a_pc,                     \* position in augmenting(args)
  a_exc,                    \* exception raised, or "none"
  a_args,                   \* batch_size, debuging_mode, the train split's size
  a_ratio,                  \* [enc, lat]: aug_model.*_out_ratio
  a_aug_model, a_cls_model, \* [training, params] of augmenting's two networks
  a_served,                 \* examples the dataloader has yielded so far
  a_batch,                  \* ids of the examples of the current batch
  encoder_out, latent_out,  \* rows of the last encode / latent_encode
  hidden_states_copy,       \* row of the tensor of that name
  hidden_is_leaf,           \* hidden_states_copy is a leaf that requires grad
  hidden_states_copy_grad,  \* row of hidden_states_copy.grad.data
  epsilon,                  \* loop variable of range(11)
  base_hidden,              \* (history) hidden_states_copy when backward ran
  seq_list, aug_list,       \* the collected record
  result_dat                \* the DataFrame written to augmenting_result.csv

avars == <<a_pc, a_exc, a_args, a_ratio, a_aug_model, a_cls_model, a_served, a_batch, encoder_out,
           latent_out, hidden_states_copy, hidden_is_leaf,
           hidden_states_copy_grad, epsilon, base_hidden, seq_list,
           aug_list, result_dat>>

EpsilonCount == 11        \* augmenting.py:164  for epsilon in range(11)
EpsilonStep == 1          \* augmenting.py:165  (epsilon * 1)

\* texts: the decoded source of example s, and the text generate produced for
\* example s at epsilon k; a probability vector is named by the text it is of
SourceText(s) == [src |-> s, generated |-> FALSE, eps |-> 0]
GeneratedText(s, k) == [src |-> s, generated |-> TRUE, eps |-> k]

\* a Python value held in aug_list: a list, or one str
PyList(items) == [kind |-> "list", items |-> items]
PyStr(text) == [kind |-> "str", items |-> <<text>>]

\* augmenting.py:118-121
AugKeys == {<<"eps", k>> : k \in 0..(EpsilonCount - 1)} \cup
           {<<"eps_prob", k>> : k \in 0..(EpsilonCount - 1)}
EmptyAugList == [key \in AugKeys |-> PyList(<<>>)]

\* augmenting.py:136-148 and 184-196: the tensor called hidden_states_copy
HiddenStates(r_e, r_l, enc, lat) ==
  IF r_e = 0 THEN lat
  ELSE IF r_l = 0 THEN MaxOverPositions(enc)
  ELSE Add(Scale(r_e, enc), Scale(r_l, lat))

\* augmenting.py:138-148: is the tensor the classifier reads a leaf of the
\* autograd graph with requires_grad?  latent_out_copy is (138-139); the
\* result of .max(dim=1)[0] on a leaf is not (141-142);
\* hidden_states.clone().detach().requires_grad_(True) is (148).
HiddenIsLeaf(r_e, r_l) ==
  IF r_e = 0 THEN TRUE ELSE IF r_l = 0 THEN FALSE ELSE TRUE

\* the dataloader of augmenting.py:93-97 (shuffle=False, drop_last=False)
BatchFrom(served, n, bs) ==
  [j \in 1..(IF n - served >= bs THEN bs ELSE n - served) |-> served + j]

NoTable == [written |-> FALSE, nrows |-> 0, columns |-> <<>>, cells |-> <<>>]

AugIdle ==
  /\ a_pc = "idle" /\ a_exc = "none"
  /\ a_args = [batch_size |-> 1, debuging_mode |-> FALSE, n_train |-> 0]
  /\ a_ratio = [enc |-> 0, lat |-> 0]
  /\ a_aug_model = [training |-> TRUE, params |-> 0]
  /\ a_cls_model = [training |-> TRUE, params |-> 0]
  /\ a_served = 0 /\ a_batch = <<>>
  /\ encoder_out = <<>> /\ latent_out = <<>> /\ hidden_states_copy = <<>>
  /\ hidden_is_leaf = FALSE /\ hidden_states_copy_grad = <<>>
  /\ epsilon = 0 /\ base_hidden = <<>>
  /\ seq_list = <<>> /\ aug_list = EmptyAugList /\ result_dat = NoTable

AugRaise(name) ==
  /\ a_pc' = "raised"
  /\ a_exc' = name

\* augmenting.py:100-121: torch.load of the checkpoint, both state dicts,
\* then the empty record.
AugLoadCheckpoint ==
  /\ task = "augmenting" /\ a_pc = "load"
  /\ reads' = reads \cup {<<AugmentingFile, {"aug_model", "cls_model"}>>}
  /\ IF ~fs[AugmentingFile].exists
     THEN AugRaise("FileNotFoundError") /\ UNCHANGED <<a_aug_model, a_cls_model>>
     ELSE IF ~({"aug_model", "cls_model"} \subseteq KeysOf(fs[AugmentingFile].dict))
     THEN AugRaise("KeyError") /\ UNCHANGED <<a_aug_model, a_cls_model>>
     ELSE /\ a_aug_model' = [training |-> FALSE,
                             params |-> Lookup(fs[AugmentingFile].dict, "aug_model")]
          /\ a_cls_model' = [training |-> FALSE,
                             params |-> Lookup(fs[AugmentingFile].dict, "cls_model")]
          /\ a_pc' = "batch" /\ UNCHANGED a_exc
  /\ seq_list' = <<>>
  /\ aug_list' = EmptyAugList
  /\ UNCHANGED <<fs, a_args, a_ratio, a_served, a_batch, encoder_out,
                 latent_out, hidden_states_copy, hidden_is_leaf,
                 hidden_states_copy_grad, epsilon, base_hidden,
                 result_dat>>

\* augmenting.py:123-148: the loop head, then for the next batch encode,
\* latent_encode and the hidden state of the configured ratios.
AugNextBatch ==
  /\ task = "augmenting" /\ a_pc = "batch"
  /\ IF a_served < a_args.n_train
     THEN \E enc \in EncoderRows, lat \in LatentRows :
            /\ a_batch' = BatchFrom(a_served, a_args.n_train, a_args.batch_size)
            /\ a_served' = a_served + Len(a_batch')
            /\ encoder_out' = enc
            /\ latent_out' = lat
            /\ hidden_states_copy' = HiddenStates(a_ratio.enc, a_ratio.lat, enc, lat)
            /\ hidden_is_leaf' = HiddenIsLeaf(a_ratio.enc, a_ratio.lat)
            /\ a_pc' = "backward"
     ELSE /\ a_pc' = "table"
          /\ UNCHANGED <<a_batch, a_served, encoder_out, latent_out,
                         hidden_states_copy, hidden_is_leaf>>
  /\ UNCHANGED <<a_aug_model, a_cls_model,
                 fs, reads, a_exc, a_args, a_ratio, hidden_states_copy_grad,
                 epsilon, base_hidden, seq_list, aug_list, result_dat>>

\* A variant of the backward step: an optimizer step follows backward and
\* moves the parameters of the network that classifies.
AugBackwardThenStep ==
  /\ task = "augmenting" /\ a_pc = "backward"
  /\ IF ~hidden_is_leaf
     THEN /\ AugRaise("AttributeError")
          /\ UNCHANGED <<hidden_states_copy_grad, base_hidden, seq_list, epsilon>>
     ELSE \E grad \in GradRows(hidden_states_copy) :
            /\ hidden_states_copy_grad' = grad
            /\ base_hidden' = hidden_states_copy
            /\ seq_list' = seq_list \o [j \in 1..Len(a_batch) |-> SourceText(a_batch[j])]
            /\ epsilon' = 0
            /\ a_pc' = "epsilon"
            /\ UNCHANGED a_exc
  /\ a_aug_model' = [a_aug_model EXCEPT !.params = @ + 1]
  /\ UNCHANGED <<a_cls_model,
                 fs, reads, a_args, a_ratio, a_served, a_batch, encoder_out,
                 latent_out, hidden_states_copy, hidden_is_leaf,
                 aug_list, result_dat>>

\* augmenting.py:150-162: reconstruction, classifier loss, backward, the
\* gradient of hidden_states_copy (None unless it is a leaf), the sources.
AugBackward ==
  /\ task = "augmenting" /\ a_pc = "backward"
  /\ IF ~hidden_is_leaf
     THEN /\ AugRaise("AttributeError")
          /\ UNCHANGED <<hidden_states_copy_grad, base_hidden, seq_list, epsilon>>
     ELSE \E grad \in GradRows(hidden_states_copy) :
            /\ hidden_states_copy_grad' = grad
            /\ base_hidden' = hidden_states_copy
            /\ seq_list' = seq_list \o [j \in 1..Len(a_batch) |-> SourceText(a_batch[j])]
            /\ epsilon' = 0
            /\ a_pc' = "epsilon"
            /\ UNCHANGED a_exc
  /\ UNCHANGED <<a_aug_model, a_cls_model,
                 fs, reads, a_args, a_ratio, a_served, a_batch, encoder_out,
                 latent_out, hidden_states_copy, hidden_is_leaf,
                 aug_list, result_dat>>

\* augmenting.py:165: the new hidden_states_copy
Perturbed(hidden, eps, grad) == Sub(hidden, Scale(eps * EpsilonStep, grad))

\* augmenting.py:165-169: the row handed to generate(latent_z=...) by the
\* iteration of the epsilon loop that runs next
latent_z == Perturbed(hidden_states_copy, epsilon, hidden_states_copy_grad)

\* augmenting.py:164-198: one iteration of the epsilon loop: perturb,
\* generate, keep the decoded text of row 0, re-encode that text, rebuild
\* hidden_states_copy from the re-encoding, classify it, extend the
\* probabilities (one row: the re-encoded batch is the one text).
AugEpsilon ==
  /\ task = "augmenting" /\ a_pc = "epsilon" /\ epsilon < EpsilonCount
  /\ LET text == GeneratedText(a_batch[1], epsilon)
     IN aug_list' = [aug_list EXCEPT
                     ![<<"eps", epsilon>>] = PyStr(text),
                     ![<<"eps_prob", epsilon>>] = PyList(@.items \o <<text>>)]
  /\ \E enc \in EncoderRows, lat \in LatentRows :
       /\ encoder_out' = enc
       /\ latent_out' = lat
       /\ hidden_states_copy' = HiddenStates(a_ratio.enc, a_ratio.lat, enc, lat)
  /\ hidden_is_leaf' = FALSE
  /\ epsilon' = epsilon + 1
  /\ a_pc' = IF epsilon + 1 = EpsilonCount THEN "end_batch" ELSE "epsilon"
  /\ UNCHANGED <<a_aug_model, a_cls_model,
                 fs, reads, a_exc, a_args, a_ratio, a_served, a_batch,
                 hidden_states_copy_grad, base_hidden, seq_list, result_dat>>

\* augmenting.py:200-201: the end of the loop body.  The tensors of the
\* finished batch are dead (each is assigned again before it is next read,
\* and the table does not read them), so they are dropped from the state.
AugEndBatch ==
  /\ task = "augmenting" /\ a_pc = "end_batch"
  /\ a_pc' = IF a_args.debuging_mode THEN "table" ELSE "batch"
  /\ encoder_out' = <<>> /\ latent_out' = <<>> /\ hidden_states_copy' = <<>>
  /\ hidden_states_copy_grad' = <<>> /\ base_hidden' = <<>>
  /\ UNCHANGED <<a_aug_model, a_cls_model,
                 fs, reads, a_exc, a_args, a_ratio, a_served, a_batch,
                 hidden_is_leaf, epsilon, seq_list, aug_list, result_dat>>

\* A variant of the column list: aug_10, the last generated-text column, is
\* left out of the table.
TableColumnsWithoutLast ==
  <<<<"seq", 0>>>> \o [k \in 1..(EpsilonCount - 1) |-> <<"aug", k - 1>>]

\* augmenting.py:203-216: the columns handed to pd.DataFrame, in order
TableColumns ==
  <<<<"seq", 0>>>> \o [k \in 1..EpsilonCount |-> <<"aug", k - 1>>]

ColumnValue(col) ==
  IF col[1] = "seq" THEN PyList(seq_list) ELSE aug_list[<<"eps", col[2]>>]

\* pd.DataFrame(dict): the list columns must agree on their length, which is
\* the number of rows (ValueError otherwise); a scalar is repeated on every row
ListLengths(columns) ==
  {Len(ColumnValue(columns[c]).items) :
     c \in {d \in 1..Len(columns) : ColumnValue(columns[d]).kind = "list"}}

DataFrame(columns) ==
  LET n == CHOOSE len \in ListLengths(columns) : TRUE
  IN [written |-> TRUE,
      nrows |-> n,
      columns |-> columns,
      cells |-> [c \in 1..Len(columns) |->
                   LET v == ColumnValue(columns[c])
                   IN IF v.kind = "list" THEN v.items
                      ELSE [r \in 1..n |-> v.items[1]]]]

\* augmenting.py:203-217: the table and to_csv
AugWriteTable ==
  /\ task = "augmenting" /\ a_pc = "table"
  /\ IF Cardinality(ListLengths(TableColumns)) # 1
     THEN AugRaise("ValueError") /\ UNCHANGED result_dat
     ELSE /\ result_dat' = DataFrame(TableColumns)
          /\ a_pc' = "done"
          /\ UNCHANGED a_exc
  /\ UNCHANGED <<a_aug_model, a_cls_model,
                 fs, reads, a_args, a_ratio, a_served, a_batch, encoder_out,
                 latent_out, hidden_states_copy, hidden_is_leaf,
                 hidden_states_copy_grad, epsilon, base_hidden,
                 seq_list, aug_list>>

\* ---------------------------------------------------------------- training
MaxEpochs == 2            \* args.aug_num_epochs, args.cls_num_epochs: 0..MaxEpochs
MaxBatches == 2           \* len(dataloader_dict['train' / 'valid']): 0..MaxBatches
BestInit == 10000         \* training.py:150-151  best_*_val_loss = 1e+4

VARIABLES
  t_pc,                     \* position in training(args)
  t_exc,                    \* exception raised, or "none"
  t_args,                   \* resume, debuging_mode, aug_num_epochs, cls_num_epochs
  t_len,                    \* len(dataloader_dict[...]): [train, valid]
  start_epoch,
  t_range,                  \* next value of the running range(...) over epochs
  epoch,
  t_i,                      \* batches the running inner loop has yielded
  aug_model, cls_model,     \* [training, params]: mode flag, parameter version
  aug_optimizer, aug_scheduler, cls_optimizer, cls_scheduler,  \* steps taken
  val_recon_loss, val_cls_loss,
  best_aug_val_loss, best_aug_epoch, best_cls_val_loss, best_cls_epoch,
  else_log                  \* the last 'Still ... is better' line written

tvars == <<t_pc, t_exc, t_args, t_len, start_epoch, t_range, epoch, t_i,
           aug_model, cls_model, aug_optimizer, aug_scheduler, cls_optimizer,
           cls_scheduler, val_recon_loss, val_cls_loss, best_aug_val_loss,
           best_aug_epoch, best_cls_val_loss, best_cls_epoch, else_log>>

\* A loss is a fraction num/den (the mean of a validation pass is a sum
\* divided by a length).
Loss(n) == [num |-> n, den |-> 1]
LossAdd(a, b) == [num |-> a.num * b.den + b.num * a.den, den |-> a.den * b.den]
LossDiv(a, n) == [num |-> a.num, den |-> a.den * n]
LossLess(a, b) == a.num * b.den < b.num * a.den

\* per-batch losses the opaque networks can produce
LossVals == {Loss(1), Loss(BestInit)}

\* a local name of training() that is bound to v, or not yet bound
Bound(v) == [bound |-> TRUE, value |-> v]
Unbound == [bound |-> FALSE, value |-> 0]
NoLog == [written |-> FALSE, epoch |-> 0, loss |-> Loss(0)]

\* training.py:93-95, after construction: nn.Module starts in training mode
FreshModel == [training |-> TRUE, params |-> 0]

\* args.aug_scheduler and args.cls_scheduler: a name for which shceduler_select
\* (optimizer/utils.py:33-58) builds a scheduler stepped without argument, and
\* one for which it builds a ReduceLROnPlateau
TrainSchedulers == {"warmup", "reduce_train"}

\* optimizer/utils.py:48-52: the names that give a ReduceLROnPlateau, whose
\* step(metrics) has a required argument; step() raises TypeError
StepNeedsMetrics(scheduler_model) == scheduler_model \in {"reduce_train", "reduce_valid"}

TrainIdle ==
  /\ t_pc = "idle" /\ t_exc = "none"
  /\ t_args = [resume |-> FALSE, debuging_mode |-> FALSE,
               aug_num_epochs |-> 0, cls_num_epochs |-> 0,
               aug_scheduler |-> "warmup", cls_scheduler |-> "warmup"]
  /\ t_len = [train |-> 0, valid |-> 0]
  /\ start_epoch = 0 /\ t_range = 0 /\ epoch = 0 /\ t_i = 0
  /\ aug_model = FreshModel /\ cls_model = FreshModel
  /\ aug_optimizer = 0 /\ aug_scheduler = 0
  /\ cls_optimizer = 0 /\ cls_scheduler = 0
  /\ val_recon_loss = Loss(0) /\ val_cls_loss = Loss(0)
  /\ best_aug_val_loss = Loss(BestInit) /\ best_aug_epoch = Unbound
  /\ best_cls_val_loss = Loss(BestInit) /\ best_cls_epoch = Unbound
  /\ else_log = NoLog

TrainRaise(name) ==
  /\ t_pc' = "raised"
  /\ t_exc' = name

\* Names bound in training() (locals assigned, imports of the module) when
\* the resume block runs: training.py:1-30 and 33-129.
BoundNames ==
  {"args", "device", "logger", "handler", "save_path", "src_word2id",
   "src_vocab_num", "num_labels", "aug_model", "cls_model", "dataset_dict",
   "dataloader_dict", "cls_optimizer", "aug_optimizer", "cls_scheduler",
   "aug_scheduler", "cls_criterion", "recon_criterion", "start_epoch",
   "os", "gc", "h5py", "pickle", "logging", "datetime", "np", "tqdm", "time",
   "torch", "nn", "Variable", "cudnn", "F", "clip_grad_norm_", "GradScaler",
   "autocast", "SummaryWriter", "DataLoader", "RandomSampler",
   "AutoTokenizer", "AutoModelForSequenceClassification", "TransformerModel",
   "ClassifierModel", "CustomDataset", "compute_mmd", "CustomLoss",
   "shceduler_select", "optimizer_select", "get_cosine_schedule_with_warmup",
   "TqdmLoggingHandler", "write_log", "get_tb_exp_name", "input_to_device",
   "training"}

\* training.py:140-142: <name>.load_state_dict(checkpoint[<key>]), in order
ResumeLoads ==
  <<[name |-> "model", key |-> "model"],
    [name |-> "optimizer", key |-> "optimizer"],
    [name |-> "scheduler", key |-> "scheduler"]>>

\* keys the resume block reads from the checkpoint: training.py:139-142
ResumeKeys == {"epoch"} \cup {ResumeLoads[k].key : k \in 1..Len(ResumeLoads)}

\* The exception the loads of training.py:140-142 end with, "none" if all
\* three succeed.  Python evaluates <name> before checkpoint[<key>].
RECURSIVE ResumeLoadsFrom(_, _)
ResumeLoadsFrom(k, dict) ==
  IF k > Len(ResumeLoads) THEN "none"
  ELSE IF ResumeLoads[k].name \notin BoundNames THEN "NameError"
  ELSE IF ~HasKey(dict, ResumeLoads[k].key) THEN "KeyError"
  ELSE ResumeLoadsFrom(k + 1, dict)

\* training.py:131-143 (the two best losses of 150-151 hold 1e+4 from the
\* start: nothing reads them before)
TrainResume ==
  /\ task = "training" /\ t_pc = "resume"
  /\ IF ~t_args.resume
     THEN /\ start_epoch' = 0
          /\ t_range' = 1
          /\ t_pc' = "aug_epoch"
          /\ UNCHANGED <<t_exc, reads>>
     ELSE /\ reads' = reads \cup {<<ResumeFile, ResumeKeys>>}
          /\ IF ~fs[ResumeFile].exists
             THEN TrainRaise("FileNotFoundError") /\ UNCHANGED <<start_epoch, t_range>>
             ELSE IF ~HasKey(fs[ResumeFile].dict, "epoch")
             THEN TrainRaise("KeyError") /\ UNCHANGED <<start_epoch, t_range>>
             ELSE /\ start_epoch' = Lookup(fs[ResumeFile].dict, "epoch") - 1
                  /\ IF ResumeLoadsFrom(1, fs[ResumeFile].dict) # "none"
                     THEN /\ TrainRaise(ResumeLoadsFrom(1, fs[ResumeFile].dict))
                          /\ UNCHANGED t_range
                     ELSE /\ t_range' = start_epoch' + 1
                          /\ t_pc' = "aug_epoch"
                          /\ UNCHANGED t_exc
  /\ UNCHANGED <<fs, t_args, t_len, epoch, t_i, aug_model, cls_model,
                 aug_optimizer, aug_scheduler, cls_optimizer, cls_scheduler,
                 val_recon_loss, val_cls_loss, best_aug_val_loss,
                 best_aug_epoch, best_cls_val_loss, best_cls_epoch, else_log>>

\* training.py:153-158: the head of the augmenter's epoch loop
TrainAugEpoch ==
  /\ task = "training" /\ t_pc = "aug_epoch"
  /\ IF t_range <= t_args.aug_num_epochs
     THEN /\ epoch' = t_range
          /\ t_range' = t_range + 1
          /\ aug_model' = [aug_model EXCEPT !.training = TRUE]
          /\ cls_model' = [cls_model EXCEPT !.training = TRUE]
          /\ t_i' = 0
          /\ t_pc' = "aug_train"
     ELSE /\ t_range' = start_epoch + 1      \* range(...) of line 246
          /\ t_pc' = "cls_epoch"
          /\ UNCHANGED <<epoch, aug_model, cls_model, t_i>>
  /\ UNCHANGED <<fs, reads, t_exc, t_args, t_len, start_epoch, aug_optimizer,
                 aug_scheduler, cls_optimizer, cls_scheduler, val_recon_loss,
                 val_cls_loss, best_aug_val_loss, best_aug_epoch,
                 best_cls_val_loss, best_cls_epoch, else_log>>

\* A variant of the augmenter's batch loop: when debuging_mode leaves the loop
\* the epoch goes on with the checkpoint decision, without a validation pass.
TrainAugBatchSkipsValidation ==
  /\ task = "training" /\ t_pc = "aug_train"
  /\ IF t_i < t_len.train
     THEN /\ aug_model' = [aug_model EXCEPT !.params = @ + 1]
          /\ aug_optimizer' = aug_optimizer + 1
          /\ IF StepNeedsMetrics(t_args.aug_scheduler)
             THEN /\ TrainRaise("TypeError")
                  /\ UNCHANGED <<aug_scheduler, t_i>>
             ELSE /\ aug_scheduler' = aug_scheduler + 1
                  /\ t_i' = t_i + 1
                  /\ t_pc' = IF t_args.debuging_mode THEN "aug_ckpt" ELSE "aug_train"
                  /\ UNCHANGED t_exc
     ELSE /\ t_pc' = "aug_valid_start"
          /\ UNCHANGED <<aug_model, aug_optimizer, aug_scheduler, t_i, t_exc>>
  /\ UNCHANGED <<fs, reads, t_args, t_len, start_epoch, t_range, epoch,
                 cls_model, cls_optimizer, cls_scheduler, val_recon_loss,
                 val_cls_loss, best_aug_val_loss, best_aug_epoch,
                 best_cls_val_loss, best_cls_epoch, else_log>>

\* training.py:160-192: the head of the batch loop and one batch: forward,
\* loss, backward, clipping, optimizer step, scheduler step; debuging_mode
\* leaves the loop after the first batch.
TrainAugBatch ==
  /\ task = "training" /\ t_pc = "aug_train"
  /\ IF t_i < t_len.train
     THEN /\ aug_model' = [aug_model EXCEPT !.params = @ + 1]
          /\ aug_optimizer' = aug_optimizer + 1
          /\ IF StepNeedsMetrics(t_args.aug_scheduler)
             THEN /\ TrainRaise("TypeError")
                  /\ UNCHANGED <<aug_scheduler, t_i>>
             ELSE /\ aug_scheduler' = aug_scheduler + 1
                  /\ t_i' = t_i + 1
                  /\ t_pc' = IF t_args.debuging_mode THEN "aug_valid_start" ELSE "aug_train"
                  /\ UNCHANGED t_exc
     ELSE /\ t_pc' = "aug_valid_start"
          /\ UNCHANGED <<aug_model, aug_optimizer, aug_scheduler, t_i, t_exc>>
  /\ UNCHANGED <<fs, reads, t_args, t_len, start_epoch, t_range, epoch,
                 cls_model, cls_optimizer, cls_scheduler, val_recon_loss,
                 val_cls_loss, best_aug_val_loss, best_aug_epoch,
                 best_cls_val_loss, best_cls_epoch, else_log>>

\* training.py:194-203: the validation pass begins
TrainAugValidStart ==
  /\ task = "training" /\ t_pc = "aug_valid_start"
  /\ aug_model' = [aug_model EXCEPT !.training = FALSE]
  /\ val_recon_loss' = Loss(0)
  /\ t_i' = 0
  /\ t_pc' = "aug_valid"
  /\ UNCHANGED <<fs, reads, t_exc, t_args, t_len, start_epoch, t_range, epoch,
                 cls_model, aug_optimizer, aug_scheduler, cls_optimizer,
                 cls_scheduler, val_cls_loss, best_aug_val_loss,
                 best_aug_epoch, best_cls_val_loss, best_cls_epoch, else_log>>

\* A variant of the augmenter's validation batch: the batch is also trained
\* on, the optimizer and the scheduler step.
TrainAugValidBatchSteps ==
  /\ task = "training" /\ t_pc = "aug_valid"
  /\ IF t_i < t_len.valid
     THEN \E recon_loss \in LossVals :
            /\ val_recon_loss' = LossAdd(val_recon_loss, recon_loss)
            /\ t_i' = t_i + 1
            /\ t_pc' = IF t_args.debuging_mode THEN "aug_ckpt" ELSE "aug_valid"
            /\ aug_model' = [aug_model EXCEPT !.params = @ + 1]
            /\ aug_optimizer' = aug_optimizer + 1
            /\ aug_scheduler' = aug_scheduler + 1
     ELSE /\ t_pc' = "aug_ckpt"
          /\ UNCHANGED <<val_recon_loss, t_i, aug_model, aug_optimizer, aug_scheduler>>
  /\ UNCHANGED <<fs, reads, t_exc, t_args, t_len, start_epoch, t_range, epoch,
                 cls_model, cls_optimizer, cls_scheduler, val_cls_loss,
                 best_aug_val_loss, best_aug_epoch, best_cls_val_loss,
                 best_cls_epoch, else_log>>

\* training.py:204-224: one validation batch (the MMD loss is only logged
\* and is left out)
TrainAugValidBatch ==
  /\ task = "training" /\ t_pc = "aug_valid"
  /\ IF t_i < t_len.valid
     THEN \E recon_loss \in LossVals :
            /\ val_recon_loss' = LossAdd(val_recon_loss, recon_loss)
            /\ t_i' = t_i + 1
            /\ t_pc' = IF t_args.debuging_mode THEN "aug_ckpt" ELSE "aug_valid"
     ELSE /\ t_pc' = "aug_ckpt"
          /\ UNCHANGED <<val_recon_loss, t_i>>
  /\ UNCHANGED <<fs, reads, t_exc, t_args, t_len, start_epoch, t_range, epoch,
                 aug_model, cls_model, aug_optimizer, aug_scheduler,
                 cls_optimizer, cls_scheduler, val_cls_loss, best_aug_val_loss,
                 best_aug_epoch, best_cls_val_loss, best_cls_epoch, else_log>>

\* training.py:234-239: the dict handed to torch.save
AugSnapshot ==
  {<<"epoch", epoch>>, <<"aug_model", aug_model.params>>,
   <<"aug_optimizer", aug_optimizer>>, <<"aug_scheduler", aug_scheduler>>}

\* training.py:232: the test that decides on a checkpoint
Improves(val_loss, best) == LossLess(val_loss, best)

\* training.py:226-244: the mean, then the checkpoint or the 'Still' line
TrainAugCheckpoint ==
  /\ task = "training" /\ t_pc = "aug_ckpt"
  /\ IF t_len.valid = 0
     THEN /\ TrainRaise("ZeroDivisionError")
          /\ UNCHANGED <<val_recon_loss, fs, best_aug_val_loss, best_aug_epoch, else_log>>
     ELSE LET mean == LossDiv(val_recon_loss, t_len.valid)
          IN /\ val_recon_loss' = mean
             /\ IF Improves(mean, best_aug_val_loss)
                THEN /\ fs' = [fs EXCEPT ![AugCheckpointFile] = FileOf(AugSnapshot)]
                     /\ best_aug_val_loss' = mean
                     /\ best_aug_epoch' = Bound(epoch)
                     /\ t_pc' = "aug_epoch"
                     /\ UNCHANGED <<t_exc, else_log>>
                ELSE /\ IF best_aug_epoch.bound
                        THEN /\ else_log' = [written |-> TRUE,
                                             epoch |-> best_aug_epoch.value,
                                             loss |-> best_aug_val_loss]
                             /\ t_pc' = "aug_epoch"
                             /\ UNCHANGED t_exc
                        ELSE /\ TrainRaise("UnboundLocalError")
                             /\ UNCHANGED else_log
                     /\ UNCHANGED <<fs, best_aug_val_loss, best_aug_epoch>>
  /\ UNCHANGED <<reads, t_args, t_len, start_epoch, t_range, epoch, t_i,
                 aug_model, cls_model, aug_optimizer, aug_scheduler,
                 cls_optimizer, cls_scheduler, val_cls_loss,
                 best_cls_val_loss, best_cls_epoch>>

\* training.py:246-250: the head of the classifier's epoch loop
TrainClsEpoch ==
  /\ task = "training" /\ t_pc = "cls_epoch"
  /\ IF t_range <= t_args.cls_num_epochs
     THEN /\ epoch' = t_range
          /\ t_range' = t_range + 1
          /\ cls_model' = [cls_model EXCEPT !.training = TRUE]
          /\ t_i' = 0
          /\ t_pc' = "cls_train"
     ELSE /\ t_pc' = "augmentation"
          /\ UNCHANGED <<epoch, t_range, cls_model, t_i>>
  /\ UNCHANGED <<fs, reads, t_exc, t_args, t_len, start_epoch, aug_model,
                 aug_optimizer, aug_scheduler, cls_optimizer, cls_scheduler,
                 val_recon_loss, val_cls_loss, best_aug_val_loss,
                 best_aug_epoch, best_cls_val_loss, best_cls_epoch, else_log>>

\* A variant of the classifier's batch loop: the two networks are trained
\* jointly, each classifier batch also steps the augmenter's optimizer.
TrainClsBatchStepsAugmenter ==
  /\ task = "training" /\ t_pc = "cls_train"
  /\ IF t_i < t_len.train
     THEN /\ cls_model' = [cls_model EXCEPT !.params = @ + 1]
          /\ cls_optimizer' = cls_optimizer + 1
          /\ aug_model' = [aug_model EXCEPT !.params = @ + 1]
          /\ aug_optimizer' = aug_optimizer + 1
          /\ aug_scheduler' = aug_scheduler + 1
          /\ IF StepNeedsMetrics(t_args.cls_scheduler)
             THEN /\ TrainRaise("TypeError")
                  /\ UNCHANGED <<cls_scheduler, t_i>>
             ELSE /\ cls_scheduler' = cls_scheduler + 1
                  /\ t_i' = t_i + 1
                  /\ t_pc' = IF t_args.debuging_mode THEN "cls_valid_start" ELSE "cls_train"
                  /\ UNCHANGED t_exc
     ELSE /\ t_pc' = "cls_valid_start"
          /\ UNCHANGED <<cls_model, cls_optimizer, cls_scheduler, t_i,
                         aug_model, aug_optimizer, aug_scheduler, t_exc>>
  /\ UNCHANGED <<fs, reads, t_args, t_len, start_epoch, t_range, epoch,
                 val_recon_loss, val_cls_loss, best_aug_val_loss,
                 best_aug_epoch, best_cls_val_loss, best_cls_epoch, else_log>>

\* training.py:252-287: the head of the batch loop and one batch: augmenter
\* forward without gradient, classifier loss, backward, clipping, optimizer
\* step, scheduler step; debuging_mode leaves the loop after the first batch.
TrainClsBatch ==
  /\ task = "training" /\ t_pc = "cls_train"
  /\ IF t_i < t_len.train
     THEN /\ cls_model' = [cls_model EXCEPT !.params = @ + 1]
          /\ cls_optimizer' = cls_optimizer + 1
          /\ IF StepNeedsMetrics(t_args.cls_scheduler)
             THEN /\ TrainRaise("TypeError")
                  /\ UNCHANGED <<cls_scheduler, t_i>>
             ELSE /\ cls_scheduler' = cls_scheduler + 1
                  /\ t_i' = t_i + 1
                  /\ t_pc' = IF t_args.debuging_mode THEN "cls_valid_start" ELSE "cls_train"
                  /\ UNCHANGED t_exc
     ELSE /\ t_pc' = "cls_valid_start"
          /\ UNCHANGED <<cls_model, cls_optimizer, cls_scheduler, t_i, t_exc>>
  /\ UNCHANGED <<fs, reads, t_args, t_len, start_epoch, t_range, epoch,
                 aug_model, aug_optimizer, aug_scheduler, val_recon_loss,
                 val_cls_loss, best_aug_val_loss, best_aug_epoch,
                 best_cls_val_loss, best_cls_epoch, else_log>>

\* training.py:289-298: the validation pass begins
TrainClsValidStart ==
  /\ task = "training" /\ t_pc = "cls_valid_start"
  /\ cls_model' = [cls_model EXCEPT !.training = FALSE]
  /\ val_cls_loss' = Loss(0)
  /\ t_i' = 0
  /\ t_pc' = "cls_valid"
  /\ UNCHANGED <<fs, reads, t_exc, t_args, t_len, start_epoch, t_range, epoch,
                 aug_model, aug_optimizer, aug_scheduler, cls_optimizer,
                 cls_scheduler, val_recon_loss, best_aug_val_loss,
                 best_aug_epoch, best_cls_val_loss, best_cls_epoch, else_log>>

\* training.py:299-321: one validation batch (the accuracy is only logged
\* and is left out)
TrainClsValidBatch ==
  /\ task = "training" /\ t_pc = "cls_valid"
  /\ IF t_i < t_len.valid
     THEN \E cls_loss \in LossVals :
            /\ val_cls_loss' = LossAdd(val_cls_loss, cls_loss)
            /\ t_i' = t_i + 1
            /\ t_pc' = IF t_args.debuging_mode THEN "cls_ckpt" ELSE "cls_valid"
     ELSE /\ t_pc' = "cls_ckpt"
          /\ UNCHANGED <<val_cls_loss, t_i>>
  /\ UNCHANGED <<fs, reads, t_exc, t_args, t_len, start_epoch, t_range, epoch,
                 aug_model, cls_model, aug_optimizer, aug_scheduler,
                 cls_optimizer, cls_scheduler, val_recon_loss,
                 best_aug_val_loss, best_aug_epoch, best_cls_val_loss,
                 best_cls_epoch, else_log>>

\* training.py:331-336: the dict handed to torch.save
ClsSnapshot ==
  {<<"epoch", epoch>>, <<"cls_model", cls_model.params>>,
   <<"cls_optimizer", cls_optimizer>>, <<"cls_scheduler", cls_scheduler>>}

\* training.py:323-341: the mean, then the checkpoint or the 'Still' line
TrainClsCheckpoint ==
  /\ task = "training" /\ t_pc = "cls_ckpt"
  /\ IF t_len.valid = 0
     THEN /\ TrainRaise("ZeroDivisionError")
          /\ UNCHANGED <<val_cls_loss, fs, best_cls_val_loss, best_cls_epoch, else_log>>
     ELSE LET mean == LossDiv(val_cls_loss, t_len.valid)
          IN /\ val_cls_loss' = mean
             /\ IF Improves(mean, best_cls_val_loss)
                THEN /\ fs' = [fs EXCEPT ![ClsCheckpointFile] = FileOf(ClsSnapshot)]
                     /\ best_cls_val_loss' = mean
                     /\ best_cls_epoch' = Bound(epoch)
                     /\ t_pc' = "cls_epoch"
                     /\ UNCHANGED <<t_exc, else_log>>
                ELSE /\ IF best_cls_epoch.bound
                        THEN /\ else_log' = [written |-> TRUE,
                                             epoch |-> best_cls_epoch.value,
                                             loss |-> best_cls_val_loss]
                             /\ t_pc' = "cls_epoch"
                             /\ UNCHANGED t_exc
                        ELSE /\ TrainRaise("UnboundLocalError")
                             /\ UNCHANGED else_log
                     /\ UNCHANGED <<fs, best_cls_val_loss, best_cls_epoch>>
  /\ UNCHANGED <<reads, t_args, t_len, start_epoch, t_range, epoch, t_i,
                 aug_model, cls_model, aug_optimizer, aug_scheduler,
                 cls_optimizer, cls_scheduler, val_recon_loss,
                 best_aug_val_loss, best_aug_epoch>>

\* ------------------------------------ training: the augmentation at its end
VARIABLES
  t_seq_list,               \* seq_list of training.py:347
  t_src,                    \* shape of src_sequence of the batch (359)
  encoder_out_copy,         \* training.py:367, one batch row, one position
  latent_out_copy,          \* training.py:368, one batch row
  t_epsilon,                \* index into EpsilonList of the next iteration
  t_passed                  \* the calls of aug_model.generate, in order

xvars == <<t_seq_list, t_src, encoder_out_copy, latent_out_copy, t_epsilon, t_passed>>

\* training.py:374  for epsilon in [2, 3, 4, 5]
EpsilonList == <<2, 3, 4, 5>>
\* the float factors of lines 375 and 383, in tenths: data and the state passed
\* to generate are held in tenths of the unit of the two copies
EncoderTenths == 3        \* training.py:375  encoder_out_copy*0.3
LatentTenths == 7         \* training.py:375  latent_out_copy.unsqueeze(1)*0.7
StepTenths == 8           \* training.py:383  epsilon * 0.8

\* rows of one position the augmenter can return for the batch row
CopyRows == [1..1 -> Vals]

AugmentationIdle ==
  /\ t_seq_list = <<>> /\ t_src = <<>>
  /\ encoder_out_copy = <<>> /\ latent_out_copy = <<>>
  /\ t_epsilon = 0 /\ t_passed = <<>>

ExampleCount == 3         \* training.py:397  for i in range(3)

\* model.py:110-130 on a batch of the given shape: does the first iteration of
\* generate's loop raise?
GenerateRaises(src) ==
  LET inp == FirstColumn(ShiftedShape(src))
  IN ~CatDim1Ok(inp, MaxDim1Shape(LastOfAxis1(DecoderOutShape(inp))))

SrcShapes == {<<b, l>> : b \in 1..MaxBatchSize, l \in 1..MaxSrcLen}

\* training.py:343-372: the lists, then the first batch of the train loader
\* (the loop ends with break at line 395): its sources and the two detached
\* copies of the augmenter's outputs.
TrainAugmentation ==
  /\ task = "training" /\ t_pc = "augmentation"
  /\ UNCHANGED <<t_exc, t_passed>>
  /\ IF t_len.train = 0
     THEN /\ t_seq_list' = <<>>
          /\ t_pc' = "report"
          /\ UNCHANGED <<t_src, encoder_out_copy, latent_out_copy, t_epsilon>>
     ELSE \E src \in SrcShapes, encoder_out_row \in CopyRows, latent_out_row \in CopyRows :
            /\ t_seq_list' = [j \in 1..src[1] |-> SourceText(j)]
            /\ t_src' = src
            /\ encoder_out_copy' = encoder_out_row
            /\ latent_out_copy' = latent_out_row
            /\ t_epsilon' = 1
            /\ t_pc' = "epsilon"
  /\ UNCHANGED <<fs, reads, t_args, t_len, start_epoch, t_range, epoch, t_i,
                 aug_model, cls_model, aug_optimizer, aug_scheduler,
                 cls_optimizer, cls_scheduler, val_recon_loss, val_cls_loss,
                 best_aug_val_loss, best_aug_epoch, best_cls_val_loss,
                 best_cls_epoch, else_log>>

\* training.py:375: data, rebuilt from the two copies (in tenths)
Data ==
  Add(Scale(EncoderTenths, encoder_out_copy), Scale(LatentTenths, latent_out_copy))

\* training.py:374-393: one iteration of the epsilon loop.  data is rebuilt,
\* the classifier loss is differentiated at data (the classifier is opaque:
\* data_grad is any gradient), data is moved against the gradient and handed
\* to aug_model.generate (model.py:105-132); after the last epsilon, break.
TrainEpsilon ==
  /\ task = "training" /\ t_pc = "epsilon"
  /\ IF t_epsilon > Len(EpsilonList)
     THEN /\ t_pc' = "report"
          /\ UNCHANGED <<t_exc, t_epsilon, t_passed>>
     ELSE \E data_grad \in GradRows(Data) :
            LET epsilon_k == EpsilonList[t_epsilon]
                z == Sub(Data, Scale(epsilon_k * StepTenths, data_grad))
            IN /\ t_passed' = Append(t_passed, [epsilon |-> epsilon_k, data |-> Data,
                                                 data_grad |-> data_grad, z |-> z])
               /\ IF GenerateRaises(t_src)
                  THEN TrainRaise("RuntimeError") /\ UNCHANGED t_epsilon
                  ELSE t_epsilon' = t_epsilon + 1 /\ UNCHANGED <<t_pc, t_exc>>
  /\ UNCHANGED <<t_seq_list, t_src, encoder_out_copy, latent_out_copy>>
  /\ UNCHANGED <<fs, reads, t_args, t_len, start_epoch, t_range, epoch, t_i,
                 aug_model, cls_model, aug_optimizer, aug_scheduler,
                 cls_optimizer, cls_scheduler, val_recon_loss, val_cls_loss,
                 best_aug_val_loss, best_aug_epoch, best_cls_val_loss,
                 best_cls_epoch, else_log>>

\* training.py:397-411: three generated examples, then the best epochs
TrainReport ==
  /\ task = "training" /\ t_pc = "report"
  /\ IF Len(t_seq_list) < ExampleCount
     THEN TrainRaise("IndexError")
     ELSE IF ~best_aug_epoch.bound \/ ~best_cls_epoch.bound
     THEN TrainRaise("UnboundLocalError")
     ELSE t_pc' = "done" /\ UNCHANGED t_exc
  /\ UNCHANGED <<fs, reads, t_args, t_len, start_epoch, t_range, epoch, t_i,
                 aug_model, cls_model, aug_optimizer, aug_scheduler,
                 cls_optimizer, cls_scheduler, val_recon_loss, val_cls_loss,
                 best_aug_val_loss, best_aug_epoch, best_cls_val_loss,
                 best_cls_epoch, else_log, xvars>>

\* ------------------------------------------- training: process termination
\* The process is terminated from outside (a signal, a power loss): what it
\* held in memory is gone, the files stay as they are.
TrainKilled ==
  /\ t_pc' = "killed" /\ t_exc' = "none"
  /\ t_args' = [resume |-> FALSE, debuging_mode |-> FALSE,
                aug_num_epochs |-> 0, cls_num_epochs |-> 0,
                aug_scheduler |-> "warmup", cls_scheduler |-> "warmup"]
  /\ t_len' = [train |-> 0, valid |-> 0]
  /\ start_epoch' = 0 /\ t_range' = 0 /\ epoch' = 0 /\ t_i' = 0
  /\ aug_model' = FreshModel /\ cls_model' = FreshModel
  /\ aug_optimizer' = 0 /\ aug_scheduler' = 0
  /\ cls_optimizer' = 0 /\ cls_scheduler' = 0
  /\ val_recon_loss' = Loss(0) /\ val_cls_loss' = Loss(0)
  /\ best_aug_val_loss' = Loss(BestInit) /\ best_aug_epoch' = Unbound
  /\ best_cls_val_loss' = Loss(BestInit) /\ best_cls_epoch' = Unbound
  /\ else_log' = NoLog
  /\ t_seq_list' = <<>> /\ t_src' = <<>>
  /\ encoder_out_copy' = <<>> /\ latent_out_copy' = <<>>
  /\ t_epsilon' = 0 /\ t_passed' = <<>>

\* termination at any point of training(args) outside torch.save
TrainKill ==
  /\ task = "training"
  /\ t_pc \notin {"idle", "raised", "done", "killed"}
  /\ TrainKilled
  /\ UNCHANGED <<fs, reads>>

\* torch.save(obj, path) of training.py:234-239 and 331-336 opens path for
\* writing, which empties an existing file, and writes the archive into that
\* same file; no temporary file is written and renamed.  While it runs the
\* file holds a part of the new snapshot.
PartialFiles(snapshot) ==
  {FileOf(d) : d \in (SUBSET snapshot) \ {snapshot}}

\* termination while torch.save runs, in either phase
TrainKillInSave ==
  /\ task = "training"
  /\ t_len.valid > 0
  /\ \/ /\ t_pc = "aug_ckpt"
        /\ Improves(LossDiv(val_recon_loss, t_len.valid), best_aug_val_loss)
        /\ \E f \in PartialFiles(AugSnapshot) :
             fs' = [fs EXCEPT ![AugCheckpointFile] = f]
     \/ /\ t_pc = "cls_ckpt"
        /\ Improves(LossDiv(val_cls_loss, t_len.valid), best_cls_val_loss)
        /\ \E f \in PartialFiles(ClsSnapshot) :
             fs' = [fs EXCEPT ![ClsCheckpointFile] = f]
  /\ TrainKilled
  /\ UNCHANGED reads

\* ------------------------------------------ the target label of a batch row
MaxLabels == 3            \* num_labels ranges over 2..MaxLabels

VARIABLES
  l_pc,                     \* "idle" | "input" | "done"
  label_flipping,           \* args.label_flipping (main.py:97-98)
  b_iter,                   \* the label row the dataloader yielded: the true label
  trg_label                 \* the row of trg_label the classifier loss is given

lvars == <<l_pc, label_flipping, b_iter, trg_label>>

\* F.one_hot of augmenting.py:57 and training.py:64: label k of n labels
OneHot(n, k) == [j \in 1..n |-> IF j = k THEN 1 ELSE 0]
LabelRows == UNION {{OneHot(n, k) : k \in 1..n} : n \in 2..MaxLabels}

\* torch.flip(t, dims=[1]) on one row: the label axis is reversed
Flip(row) == [j \in 1..Len(row) |-> row[Len(row) + 1 - j]]

LabelIdle ==
  /\ l_pc = "idle" /\ label_flipping = FALSE /\ b_iter = <<>> /\ trg_label = <<>>

LabelInit ==
  /\ l_pc = "input"
  /\ label_flipping \in BOOLEAN
  /\ b_iter \in LabelRows
  /\ trg_label = <<>>

\* augmenting.py:126-128 and training.py:358-360: the label of the batch is
\* unpacked and flipped; args.label_flipping is read nowhere in src/.
TargetLabel ==
  /\ task = "target_label" /\ l_pc = "input"
  /\ trg_label' = Flip(b_iter)
  /\ l_pc' = "done"
  /\ UNCHANGED <<label_flipping, b_iter>>

\* --------------------------------------------------- the setup of training
VARIABLES
  s_pc,                     \* "idle" | "data" | "models" | "optimizers" | "ready" | "raised"
  s_exc,                    \* exception raised by the setup, or "none"
  s_args,                   \* the four names and the ratio of args
  s_opened                  \* data files opened so far

svars == <<s_pc, s_exc, s_args, s_opened>>

\* names the setup is tried with: two known ones of each kind and one that
\* no branch of the selecting function knows
OptimizerNames == {"AdamW", "SGD", "Adagrad"}
SchedulerNames == {"warmup", "constant", "cosine"}
\* args.encoder_out_ratio: the weights of the augmenting model and a negative one
RatioArgs == Ratios \cup {-1}

\* optimizer/utils.py:8-31, by the name it is given: the optimizer built, or
\* the exception of the else branch
optimizer_select(optimizer_model) ==
  IF optimizer_model \in {"SGD", "Adam", "AdamW", "Ralamb"}
  THEN [raised |-> FALSE, value |-> optimizer_model]
  ELSE [raised |-> TRUE, value |-> "Exception"]

\* optimizer/utils.py:33-58, by the name it is given
shceduler_select(scheduler_model) ==
  IF scheduler_model \in {"constant", "warmup", "reduce_train", "reduce_valid", "lambda"}
  THEN [raised |-> FALSE, value |-> scheduler_model]
  ELSE [raised |-> TRUE, value |-> "Exception"]

SetupIdle ==
  /\ s_pc = "idle" /\ s_exc = "none" /\ s_opened = {}
  /\ s_args = [cls_optimizer |-> "AdamW", aug_optimizer |-> "AdamW",
               cls_scheduler |-> "warmup", aug_scheduler |-> "warmup",
               encoder_out_ratio |-> 0]

SetupInit ==
  /\ s_pc = "data" /\ s_exc = "none" /\ s_opened = {}
  /\ s_args \in [cls_optimizer : OptimizerNames, aug_optimizer : OptimizerNames,
                 cls_scheduler : SchedulerNames, aug_scheduler : SchedulerNames,
                 encoder_out_ratio : RatioArgs]

\* training.py:52-82: the two data files are opened and read
SetupOpenData ==
  /\ task = "setup" /\ s_pc = "data"
  /\ s_opened' = s_opened \cup {"processed.hdf5", "word2id.pkl"}
  /\ s_pc' = "models"
  /\ UNCHANGED <<s_exc, s_args>>

\* training.py:88-118: the two networks, the datasets and their loaders;
\* args.encoder_out_ratio is handed on as it is, no line looks at its value
SetupModels ==
  /\ task = "setup" /\ s_pc = "models"
  /\ s_pc' = "optimizers"
  /\ UNCHANGED <<s_exc, s_args, s_opened>>

\* training.py:121-125: the two optimizers, then the two schedulers
SetupOptimizers ==
  /\ task = "setup" /\ s_pc = "optimizers"
  /\ IF \/ optimizer_select(s_args.cls_optimizer).raised
        \/ optimizer_select(s_args.aug_optimizer).raised
        \/ shceduler_select(s_args.cls_scheduler).raised
        \/ shceduler_select(s_args.aug_scheduler).raised
     THEN s_pc' = "raised" /\ s_exc' = "Exception"
     ELSE s_pc' = "ready" /\ UNCHANGED s_exc
  /\ UNCHANGED <<s_args, s_opened>>

\* ------------------------------------------------ the ids given to the decoder
\* shift_tokens_right (model.py:170-183) on one row of the batch (every
\* statement of it acts on each row alone), and what forward (79-95) and
\* generate (110-122) hand to self.decoder as input_ids.
MaxIds == 3               \* columns of src_input_ids, 1..MaxIds

VARIABLES
  d_pc,                     \* "idle" | "call" | "shifted" | "decoder" | "raised"
  d_exc,
  d_caller,                 \* "forward" | "generate"
  d_src_input_ids,          \* one row of src_input_ids
  d_pad_token_id,           \* self.model_config.pad_token_id
  d_start_token_id,         \* self.model_config.decoder_start_token_id
  decoder_input_ids,        \* what shift_tokens_right returned
  d_input_ids               \* the input_ids given to self.decoder

dvars == <<d_pc, d_exc, d_caller, d_src_input_ids, d_pad_token_id,
           d_start_token_id, decoder_input_ids, d_input_ids>>

IgnoreIndex == -100       \* model.py:181  shifted_input_ids == -100
NoneId == -1              \* Python's None as a value of pad_token_id
TokenIds == {0, 1}        \* ids of the vocabulary
SourceIds == TokenIds \cup {IgnoreIndex}
PadIds == {NoneId, 1}
StartIds == {0, 2}

\* model.py:174-176: new_zeros, then columns 1.. from the source, then column 0
ShiftedBeforeFill(input_ids, decoder_start_token_id) ==
  LET new_zeros == [i \in 1..Len(input_ids) |-> 0]
      shifted == [i \in 1..Len(input_ids) |->
                    IF i >= 2 THEN input_ids[i - 1] ELSE new_zeros[i]]
  IN [shifted EXCEPT ![1] = decoder_start_token_id]

\* A variant of shift_tokens_right without the masked_fill_ of line 181.
shift_tokens_right_unfilled(input_ids, pad_token_id, decoder_start_token_id) ==
  ShiftedBeforeFill(input_ids, decoder_start_token_id)

\* model.py:170-183, for a pad_token_id that is not None
shift_tokens_right(input_ids, pad_token_id, decoder_start_token_id) ==
  LET shifted_input_ids == ShiftedBeforeFill(input_ids, decoder_start_token_id)
  IN [i \in 1..Len(shifted_input_ids) |->
        IF shifted_input_ids[i] = IgnoreIndex THEN pad_token_id
        ELSE shifted_input_ids[i]]

DecoderIdle ==
  /\ d_pc = "idle" /\ d_exc = "none" /\ d_caller = "none"
  /\ d_src_input_ids = <<>> /\ d_pad_token_id = NoneId /\ d_start_token_id = 0
  /\ decoder_input_ids = <<>> /\ d_input_ids = <<>>

DecoderInit ==
  /\ d_pc = "call" /\ d_exc = "none"
  /\ d_caller \in {"forward", "generate"}
  /\ \E n \in 1..MaxIds : d_src_input_ids \in [1..n -> SourceIds]
  /\ d_pad_token_id \in PadIds
  /\ d_start_token_id \in StartIds
  /\ decoder_input_ids = <<>> /\ d_input_ids = <<>>

\* model.py:79-81 and 110-112: the call of shift_tokens_right; the raise of
\* line 179 comes after the assignments to the new tensor, which is dropped.
ShiftTokensRight ==
  /\ task = "decoder_input" /\ d_pc = "call"
  /\ IF d_pad_token_id = NoneId
     THEN /\ d_pc' = "raised" /\ d_exc' = "ValueError"
          /\ UNCHANGED decoder_input_ids
     ELSE /\ decoder_input_ids' =
               shift_tokens_right(d_src_input_ids, d_pad_token_id, d_start_token_id)
          /\ d_pc' = "shifted"
          /\ UNCHANGED d_exc
  /\ UNCHANGED <<d_caller, d_src_input_ids, d_pad_token_id, d_start_token_id, d_input_ids>>

\* model.py:90-95: forward gives decoder_input_ids to the decoder
ForwardDecoder ==
  /\ task = "decoder_input" /\ d_pc = "shifted" /\ d_caller = "forward"
  /\ d_input_ids' = decoder_input_ids
  /\ d_pc' = "decoder"
  /\ UNCHANGED <<d_exc, d_caller, d_src_input_ids, d_pad_token_id, d_start_token_id,
                 decoder_input_ids>>

\* model.py:115-122: generate gives inp_ = decoder_input_ids[:,0].unsqueeze(1)
\* to the decoder in the first iteration of its loop
GenerateDecoder ==
  /\ task = "decoder_input" /\ d_pc = "shifted" /\ d_caller = "generate"
  /\ d_input_ids' = <<decoder_input_ids[1]>>
  /\ d_pc' = "decoder"
  /\ UNCHANGED <<d_exc, d_caller, d_src_input_ids, d_pad_token_id, d_start_token_id,
                 decoder_input_ids>>

\* ------------------------------------ one batch of the augmenter's training
\* training.py:160-186 statement by statement, on a train loader of ab_len
\* batches.  Losses are integers; the networks and the two criteria are
\* opaque, their values are drawn from small sets.
VARIABLES
  ab_pc,           \* "idle" | "head" | "forward" | "loss" | "backward" | "clip"
                   \* | "optimizer" | "scheduler" | "end" | "raised"
  ab_exc,
  ab_args,         \* [clip_grad_norm, debuging_mode, aug_scheduler]
  ab_len,          \* len(dataloader_dict['train'])
  ab_i,            \* batches processed
  ab_grads,        \* .grad of the augmenter's parameters:
                   \* "stale" | "none" | "computed" | "clipped"
  ab_mmd,          \* what compute_mmd returned for the batch
  ab_recon,        \* what recon_criterion returned for the batch
  ab_mmd_loss,     \* mmd_loss
  ab_total_loss,   \* total_loss
  ab_params,       \* updates of the augmenter's parameters
  ab_optimizer,    \* aug_optimizer.step() calls
  ab_scheduler     \* aug_scheduler.step() calls

abvars == <<ab_pc, ab_exc, ab_args, ab_len, ab_i, ab_grads, ab_mmd, ab_recon, ab_mmd_loss,
            ab_total_loss, ab_params, ab_optimizer, ab_scheduler>>

MmdScale == 100           \* training.py:175  compute_mmd(...) * 100
MmdVals == {0, 1}
ReconVals == {0, 1}
ClipGradNorms == {0, 1}   \* args.clip_grad_norm: off, on
\* args.aug_scheduler: the names shceduler_select builds a scheduler for
BatchSchedulers == {"constant", "warmup", "reduce_train", "reduce_valid", "lambda"}

BatchIdle ==
  /\ ab_pc = "idle" /\ ab_exc = "none"
  /\ ab_args = [clip_grad_norm |-> 0, debuging_mode |-> FALSE, aug_scheduler |-> "warmup"]
  /\ ab_len = 0 /\ ab_i = 0 /\ ab_grads = "stale"
  /\ ab_mmd = 0 /\ ab_recon = 0 /\ ab_mmd_loss = 0 /\ ab_total_loss = 0
  /\ ab_params = 0 /\ ab_optimizer = 0 /\ ab_scheduler = 0

BatchInit ==
  /\ ab_pc = "head" /\ ab_exc = "none"
  /\ ab_args \in [clip_grad_norm : ClipGradNorms, debuging_mode : BOOLEAN,
                  aug_scheduler : BatchSchedulers]
  /\ ab_len \in 0..MaxBatches
  /\ ab_i = 0 /\ ab_grads = "stale"
  /\ ab_mmd = 0 /\ ab_recon = 0 /\ ab_mmd_loss = 0 /\ ab_total_loss = 0
  /\ ab_params = 0 /\ ab_optimizer = 0 /\ ab_scheduler = 0

\* training.py:160-162: the next batch, aug_optimizer.zero_grad(set_to_none=True)
BatchZeroGrad ==
  /\ task = "aug_batch" /\ ab_pc = "head"
  /\ IF ab_i < ab_len
     THEN ab_grads' = "none" /\ ab_pc' = "forward"
     ELSE ab_pc' = "end" /\ UNCHANGED ab_grads
  /\ UNCHANGED <<ab_exc, ab_args, ab_len, ab_i, ab_mmd, ab_recon, ab_mmd_loss, ab_total_loss,
                 ab_params, ab_optimizer, ab_scheduler>>

\* training.py:164-174: the inputs and the forward pass of the augmenter
BatchForward ==
  /\ task = "aug_batch" /\ ab_pc = "forward"
  /\ ab_mmd' \in MmdVals
  /\ ab_recon' \in ReconVals
  /\ ab_pc' = "loss"
  /\ UNCHANGED <<ab_exc, ab_args, ab_len, ab_i, ab_grads, ab_mmd_loss, ab_total_loss,
                 ab_params, ab_optimizer, ab_scheduler>>

\* training.py:175-178: mmd_loss, recon_loss, total_loss
BatchLoss ==
  /\ task = "aug_batch" /\ ab_pc = "loss"
  /\ ab_mmd_loss' = ab_mmd * MmdScale
  /\ ab_total_loss' = ab_mmd_loss' + ab_recon
  /\ ab_pc' = "backward"
  /\ UNCHANGED <<ab_exc, ab_args, ab_len, ab_i, ab_grads, ab_mmd, ab_recon,
                 ab_params, ab_optimizer, ab_scheduler>>

\* training.py:179-180: total_loss.backward(), then the test of clip_grad_norm
BatchBackward ==
  /\ task = "aug_batch" /\ ab_pc = "backward"
  /\ ab_grads' = "computed"
  /\ ab_pc' = IF ab_args.clip_grad_norm > 0 THEN "clip" ELSE "optimizer"
  /\ UNCHANGED <<ab_exc, ab_args, ab_len, ab_i, ab_mmd, ab_recon, ab_mmd_loss, ab_total_loss,
                 ab_params, ab_optimizer, ab_scheduler>>

\* training.py:181: clip_grad_norm_(aug_model.parameters(), args.clip_grad_norm)
BatchClip ==
  /\ task = "aug_batch" /\ ab_pc = "clip"
  /\ ab_grads' = "clipped"
  /\ ab_pc' = "optimizer"
  /\ UNCHANGED <<ab_exc, ab_args, ab_len, ab_i, ab_mmd, ab_recon, ab_mmd_loss, ab_total_loss,
                 ab_params, ab_optimizer, ab_scheduler>>

\* training.py:182: aug_optimizer.step()
BatchOptimizerStep ==
  /\ task = "aug_batch" /\ ab_pc = "optimizer"
  /\ ab_optimizer' = ab_optimizer + 1
  /\ ab_params' = ab_params + 1
  /\ ab_pc' = "scheduler"
  /\ UNCHANGED <<ab_exc, ab_args, ab_len, ab_i, ab_grads, ab_mmd, ab_recon, ab_mmd_loss,
                 ab_total_loss, ab_scheduler>>

\* training.py:183-186: aug_scheduler.step(), which raises for a scheduler
\* whose step needs the metrics, then the break of debuging_mode or the next
\* batch
BatchSchedulerStep ==
  /\ task = "aug_batch" /\ ab_pc = "scheduler"
  /\ IF StepNeedsMetrics(ab_args.aug_scheduler)
     THEN /\ ab_pc' = "raised" /\ ab_exc' = "TypeError"
          /\ UNCHANGED <<ab_scheduler, ab_i>>
     ELSE /\ ab_scheduler' = ab_scheduler + 1
          /\ ab_i' = ab_i + 1
          /\ ab_pc' = IF ab_args.debuging_mode THEN "end" ELSE "head"
          /\ UNCHANGED ab_exc
  /\ UNCHANGED <<ab_args, ab_len, ab_grads, ab_mmd, ab_recon, ab_mmd_loss,
                 ab_total_loss, ab_params, ab_optimizer>>

\* ------------------------------------------------------------- main(args)
\* main.py:16-46.  The six phase functions are opaque: a call returns or
\* raises.  m_next is the position in PhaseOrder of the next if statement.
VARIABLES
  m_pc,            \* "idle" | "start" | "phases" | "done" | "raised"
  m_exc,           \* the exception that left main, as [phase, name]
  m_args,          \* the six flags
  m_next,          \* position of the next if statement
  m_started        \* the phase functions called, in order

mvars == <<m_pc, m_exc, m_args, m_next, m_started>>

\* main.py:27-43: the if statements, top to bottom (flag and function)
PhaseOrder ==
  <<"augmenter_training", "style_transfer", "style_transfer_augmenting",
    "augmenting", "training", "test_textattack">>

Phases == {PhaseOrder[k] : k \in 1..Len(PhaseOrder)}
NoException == [phase |-> "none", name |-> "none"]
\* exceptions a phase can raise
PhaseExceptions == {"RuntimeError", "KeyError"}

MainIdle ==
  /\ m_pc = "idle" /\ m_exc = NoException
  /\ m_args = [p \in Phases |-> FALSE]
  /\ m_next = 0 /\ m_started = <<>>

MainInit ==
  /\ m_pc = "start" /\ m_exc = NoException
  /\ m_args \in [Phases -> BOOLEAN]
  /\ m_next = 0 /\ m_started = <<>>

\* main.py:18-25: the start time, the seed, the paths
MainStart ==
  /\ task = "main" /\ m_pc = "start"
  /\ m_pc' = "phases"
  /\ m_next' = 1
  /\ UNCHANGED <<m_exc, m_args, m_started>>

\* A variant of one if statement: a phase that raises is called again.
MainPhaseRetries ==
  /\ task = "main" /\ m_pc = "phases" /\ m_next <= Len(PhaseOrder)
  /\ LET phase == PhaseOrder[m_next]
     IN IF m_args[phase]
        THEN /\ m_started' = Append(m_started, phase)
             /\ \/ m_next' = m_next + 1
                \/ UNCHANGED m_next
             /\ UNCHANGED <<m_pc, m_exc>>
        ELSE /\ m_next' = m_next + 1
             /\ UNCHANGED <<m_pc, m_exc, m_started>>
  /\ UNCHANGED m_args

\* main.py:27-43: one if statement; main has no try, so an exception of the
\* called phase leaves main
MainPhase ==
  /\ task = "main" /\ m_pc = "phases" /\ m_next <= Len(PhaseOrder)
  /\ LET phase == PhaseOrder[m_next]
     IN IF m_args[phase]
        THEN /\ m_started' = Append(m_started, phase)
             /\ \/ /\ m_next' = m_next + 1
                   /\ UNCHANGED <<m_pc, m_exc>>
                \/ \E name \in PhaseExceptions :
                     /\ m_pc' = "raised"
                     /\ m_exc' = [phase |-> phase, name |-> name]
                     /\ UNCHANGED m_next
        ELSE /\ m_next' = m_next + 1
             /\ UNCHANGED <<m_pc, m_exc, m_started>>
  /\ UNCHANGED m_args

\* main.py:45-46: the closing print
MainDone ==
  /\ task = "main" /\ m_pc = "phases" /\ m_next > Len(PhaseOrder)
  /\ m_pc' = "done"
  /\ UNCHANGED <<m_exc, m_args, m_next, m_started>>

\* ------------------------------------------------ what the classifier is fed
\* The three calls of cls_model in training(), on the outputs the augmenter
\* gives for one batch row: training.py:272 (classifier training), 314
\* (classifier validation) and 375-378 (the gradient of the augmentation
\* loop).  Inputs are held in tenths, as Data is.
VARIABLES
  ci_encoder_out,  \* encoder_out of the row, over positions
  ci_latent_out,   \* latent_out of the row
  ci_input         \* per call site: the encoder_out argument given to cls_model

civars == <<ci_encoder_out, ci_latent_out, ci_input>>

ClsTrainEncoderTenths == 5    \* training.py:272  encoder_out_copy*0.5
ClsTrainLatentTenths == 0     \* training.py:272  latent_out_copy.unsqueeze(1)*0.
ClsValidEncoderTenths == 3    \* training.py:314  encoder_out*0.3
ClsValidLatentTenths == 7     \* training.py:314  latent_out.unsqueeze(1)*0.7

CallSites == {"cls_train", "cls_valid", "attack"}
NotFed == <<>>

\* (encoder_out * e) + (latent_out.unsqueeze(1) * l), the latent row
\* broadcast over the positions
Mix(e, encoder_row, l, latent_row) ==
  Add(Scale(e, encoder_row), Scale(l, latent_row))

ClsInputIdle ==
  /\ ci_encoder_out = <<>> /\ ci_latent_out = <<>>
  /\ ci_input = [c \in CallSites |-> NotFed]

ClsInputInit ==
  /\ ci_encoder_out \in EncoderRows
  /\ ci_latent_out \in LatentRows
  /\ ci_input = [c \in CallSites |-> NotFed]

\* training.py:272
ClsTrainInput ==
  /\ task = "cls_input" /\ ci_input["cls_train"] = NotFed
  /\ ci_input' = [ci_input EXCEPT !["cls_train"] =
                    Mix(ClsTrainEncoderTenths, ci_encoder_out,
                        ClsTrainLatentTenths, ci_latent_out)]
  /\ UNCHANGED <<ci_encoder_out, ci_latent_out>>

\* training.py:314
ClsValidInput ==
  /\ task = "cls_input" /\ ci_input["cls_valid"] = NotFed
  /\ ci_input' = [ci_input EXCEPT !["cls_valid"] =
                    Mix(ClsValidEncoderTenths, ci_encoder_out,
                        ClsValidLatentTenths, ci_latent_out)]
  /\ UNCHANGED <<ci_encoder_out, ci_latent_out>>

\* training.py:375-378
AttackInput ==
  /\ task = "cls_input" /\ ci_input["attack"] = NotFed
  /\ ci_input' = [ci_input EXCEPT !["attack"] =
                    Mix(EncoderTenths, ci_encoder_out, LatentTenths, ci_latent_out)]
  /\ UNCHANGED <<ci_encoder_out, ci_latent_out>>

\* -------------------------------------------------------------- the system
vars == <<task, fs, reads, gvars, avars, tvars, xvars, lvars, svars, dvars, abvars,
          mvars, civars>>

InitFiles == [p \in Paths |-> NoFile]

\* A file with the keys the resume block reads, put at ResumeFile by hand:
\* no torch.save of the sources writes that path (training.py:135-142).
ForeignResumeCheckpoint ==
  {<<"epoch", 1>>, <<"model", 0>>, <<"optimizer", 0>>, <<"scheduler", 0>>}

GenInit ==
  /\ g_pc = "enter" /\ g_exc = "none" /\ g_i = 0 /\ g_inp = <<>>
  /\ g_src \in SrcShapes

AugInit ==
  /\ a_pc = "load" /\ a_exc = "none"
  /\ a_args \in [batch_size : 1..MaxBatchSize, debuging_mode : BOOLEAN,
                 n_train : 0..MaxExamples]
  /\ a_ratio \in [enc : Ratios, lat : Ratios]
  /\ a_aug_model = FreshModel /\ a_cls_model = FreshModel
  /\ a_served = 0 /\ a_batch = <<>>
  /\ encoder_out = <<>> /\ latent_out = <<>> /\ hidden_states_copy = <<>>
  /\ hidden_is_leaf = FALSE /\ hidden_states_copy_grad = <<>>
  /\ epsilon = 0 /\ base_hidden = <<>>
  /\ seq_list = <<>> /\ aug_list = EmptyAugList /\ result_dat = NoTable

TrainInit ==
  /\ t_pc = "resume" /\ t_exc = "none"
  /\ t_args \in [resume : BOOLEAN, debuging_mode : BOOLEAN,
                 aug_num_epochs : 0..MaxEpochs, cls_num_epochs : 0..MaxEpochs,
                 aug_scheduler : TrainSchedulers, cls_scheduler : TrainSchedulers]
  /\ t_len \in [train : 0..MaxBatches, valid : 0..MaxBatches]
  /\ start_epoch = 0 /\ t_range = 0 /\ epoch = 0 /\ t_i = 0
  /\ aug_model = FreshModel /\ cls_model = FreshModel
  /\ aug_optimizer = 0 /\ aug_scheduler = 0
  /\ cls_optimizer = 0 /\ cls_scheduler = 0
  /\ val_recon_loss = Loss(0) /\ val_cls_loss = Loss(0)
  /\ best_aug_val_loss = Loss(BestInit) /\ best_aug_epoch = Unbound
  /\ best_cls_val_loss = Loss(BestInit) /\ best_cls_epoch = Unbound
  /\ else_log = NoLog

Init ==
  /\ task \in Tasks
  /\ reads = {}
  /\ AugmentationIdle
  /\ IF task = "generate" THEN GenInit ELSE GenIdle
  /\ IF task = "augmenting" THEN AugInit ELSE AugIdle
  /\ IF task = "training" THEN TrainInit ELSE TrainIdle
  /\ IF task = "target_label" THEN LabelInit ELSE LabelIdle
  /\ IF task = "setup" THEN SetupInit ELSE SetupIdle
  /\ IF task = "decoder_input" THEN DecoderInit ELSE DecoderIdle
  /\ IF task = "aug_batch" THEN BatchInit ELSE BatchIdle
  /\ IF task = "main" THEN MainInit ELSE MainIdle
  /\ IF task = "cls_input" THEN ClsInputInit ELSE ClsInputIdle
  /\ fs \in CASE task = "augmenting" ->
                  {InitFiles,
                   [InitFiles EXCEPT ![AugmentingFile] = FileOf(PriorAugmenterCheckpoint)]}
              [] task = "training" ->
                  {InitFiles,
                   [InitFiles EXCEPT ![ResumeFile] = FileOf(ForeignResumeCheckpoint)]}
              [] OTHER -> {InitFiles}

Next ==
  \/ GenerateEnter
       /\ UNCHANGED <<task, fs, reads, avars, tvars, xvars, lvars, svars, dvars, abvars,
                   mvars, civars>>
  \/ GenerateLoop
       /\ UNCHANGED <<task, fs, reads, avars, tvars, xvars, lvars, svars, dvars, abvars,
                   mvars, civars>>
  \/ AugLoadCheckpoint
       /\ UNCHANGED <<task, gvars, tvars, xvars, lvars, svars, dvars, abvars,
                   mvars, civars>>
  \/ AugNextBatch
       /\ UNCHANGED <<task, gvars, tvars, xvars, lvars, svars, dvars, abvars,
                   mvars, civars>>
  \/ AugBackward
       /\ UNCHANGED <<task, gvars, tvars, xvars, lvars, svars, dvars, abvars,
                   mvars, civars>>
  \/ AugEpsilon
       /\ UNCHANGED <<task, gvars, tvars, xvars, lvars, svars, dvars, abvars,
                   mvars, civars>>
  \/ AugEndBatch
       /\ UNCHANGED <<task, gvars, tvars, xvars, lvars, svars, dvars, abvars,
                   mvars, civars>>
  \/ AugWriteTable
       /\ UNCHANGED <<task, gvars, tvars, xvars, lvars, svars, dvars, abvars,
                   mvars, civars>>
  \/ TrainResume
       /\ UNCHANGED <<task, gvars, avars, xvars, lvars, svars, dvars, abvars,
                   mvars, civars>>
  \/ TrainAugEpoch
       /\ UNCHANGED <<task, gvars, avars, xvars, lvars, svars, dvars, abvars,
                   mvars, civars>>
  \/ TrainAugBatch
       /\ UNCHANGED <<task, gvars, avars, xvars, lvars, svars, dvars, abvars,
                   mvars, civars>>
  \/ TrainAugValidStart
       /\ UNCHANGED <<task, gvars, avars, xvars, lvars, svars, dvars, abvars,
                   mvars, civars>>
  \/ TrainAugValidBatch
       /\ UNCHANGED <<task, gvars, avars, xvars, lvars, svars, dvars, abvars,
                   mvars, civars>>
  \/ TrainAugCheckpoint
       /\ UNCHANGED <<task, gvars, avars, xvars, lvars, svars, dvars, abvars,
                   mvars, civars>>
  \/ TrainClsEpoch
       /\ UNCHANGED <<task, gvars, avars, xvars, lvars, svars, dvars, abvars,
                   mvars, civars>>
  \/ TrainClsBatch
       /\ UNCHANGED <<task, gvars, avars, xvars, lvars, svars, dvars, abvars,
                   mvars, civars>>
  \/ TrainClsValidStart
       /\ UNCHANGED <<task, gvars, avars, xvars, lvars, svars, dvars, abvars,
                   mvars, civars>>
  \/ TrainClsValidBatch
       /\ UNCHANGED <<task, gvars, avars, xvars, lvars, svars, dvars, abvars,
                   mvars, civars>>
  \/ TrainClsCheckpoint
       /\ UNCHANGED <<task, gvars, avars, xvars, lvars, svars, dvars, abvars,
                   mvars, civars>>
  \/ TrainAugmentation
       /\ UNCHANGED <<task, gvars, avars, lvars, svars, dvars, abvars,
                   mvars, civars>>
  \/ TrainEpsilon
       /\ UNCHANGED <<task, gvars, avars, lvars, svars, dvars, abvars,
                   mvars, civars>>
  \/ TrainReport
       /\ UNCHANGED <<task, gvars, avars, lvars, svars, dvars, abvars,
                   mvars, civars>>
  \/ TrainKill
       /\ UNCHANGED <<task, gvars, avars, lvars, svars, dvars, abvars,
                   mvars, civars>>
  \/ TrainKillInSave
       /\ UNCHANGED <<task, gvars, avars, lvars, svars, dvars, abvars,
                   mvars, civars>>
  \/ TargetLabel
       /\ UNCHANGED <<task, fs, reads, gvars, avars, tvars, xvars, svars, dvars, abvars,
                   mvars, civars>>
  \/ SetupOpenData
       /\ UNCHANGED <<task, fs, reads, gvars, avars, tvars, xvars, lvars, dvars, abvars,
                   mvars, civars>>
  \/ SetupModels
       /\ UNCHANGED <<task, fs, reads, gvars, avars, tvars, xvars, lvars, dvars, abvars,
                   mvars, civars>>
  \/ SetupOptimizers
       /\ UNCHANGED <<task, fs, reads, gvars, avars, tvars, xvars, lvars, dvars, abvars,
                   mvars, civars>>
  \/ ShiftTokensRight
       /\ UNCHANGED <<task, fs, reads, gvars, avars, tvars, xvars, lvars, svars, abvars,
                   mvars, civars>>
  \/ ForwardDecoder
       /\ UNCHANGED <<task, fs, reads, gvars, avars, tvars, xvars, lvars, svars, abvars,
                   mvars, civars>>
  \/ GenerateDecoder
       /\ UNCHANGED <<task, fs, reads, gvars, avars, tvars, xvars, lvars, svars, abvars,
                   mvars, civars>>
  \/ BatchZeroGrad
       /\ UNCHANGED <<task, fs, reads, gvars, avars, tvars, xvars, lvars, svars, dvars,
                   mvars, civars>>
  \/ BatchForward
       /\ UNCHANGED <<task, fs, reads, gvars, avars, tvars, xvars, lvars, svars, dvars,
                   mvars, civars>>
  \/ BatchLoss
       /\ UNCHANGED <<task, fs, reads, gvars, avars, tvars, xvars, lvars, svars, dvars,
                   mvars, civars>>
  \/ BatchBackward
       /\ UNCHANGED <<task, fs, reads, gvars, avars, tvars, xvars, lvars, svars, dvars,
                   mvars, civars>>
  \/ BatchClip
       /\ UNCHANGED <<task, fs, reads, gvars, avars, tvars, xvars, lvars, svars, dvars,
                   mvars, civars>>
  \/ BatchOptimizerStep
       /\ UNCHANGED <<task, fs, reads, gvars, avars, tvars, xvars, lvars, svars, dvars,
                   mvars, civars>>
  \/ BatchSchedulerStep
       /\ UNCHANGED <<task, fs, reads, gvars, avars, tvars, xvars, lvars, svars, dvars,
                   mvars, civars>>
  \/ MainStart
       /\ UNCHANGED <<task, fs, reads, gvars, avars, tvars, xvars, lvars, svars, dvars,
                   abvars, civars>>
  \/ MainPhase
       /\ UNCHANGED <<task, fs, reads, gvars, avars, tvars, xvars, lvars, svars, dvars,
                   abvars, civars>>
  \/ MainDone
       /\ UNCHANGED <<task, fs, reads, gvars, avars, tvars, xvars, lvars, svars, dvars,
                   abvars, civars>>
  \/ ClsTrainInput
       /\ UNCHANGED <<task, fs, reads, gvars, avars, tvars, xvars, lvars, svars, dvars,
                   abvars, mvars>>
  \/ ClsValidInput
       /\ UNCHANGED <<task, fs, reads, gvars, avars, tvars, xvars, lvars, svars, dvars,
                   abvars, mvars>>
  \/ AttackInput
       /\ UNCHANGED <<task, fs, reads, gvars, avars, tvars, xvars, lvars, svars, dvars,
                   abvars, mvars>>

Spec == Init /\ [][Next]_vars


\* ------------------------------------------------------------- the claims

\* C1: every call of TransformerModel.generate returns, for each example of
\* the batch, a token sequence of exactly the maximum length, 360 tokens.
C1_GenerateReturnsMaxLength ==
  (task = "generate" /\ g_pc \in {"returned", "raised"}) =>
    (g_pc = "returned" /\ g_inp = <<g_src[1], MaxLength>>)

\* C2: in augmenting, for every epsilon of the schedule the hidden state
\* handed to generate is the base hidden state of before the loop minus
\* epsilon times the gradient computed once before the loop.
C2_IndependentPerturbation ==
  (task = "augmenting" /\ a_pc = "epsilon") =>
    latent_z = Perturbed(base_hidden, epsilon, hidden_states_copy_grad)

\* C3: the hidden state augmenting builds for a batch is
\* r_e * EncoderOutput + r_l * LatentVector (the latent broadcast over the
\* positions); r_l * LatentVector when r_e = 0, r_e * EncoderOutput when
\* r_l = 0.
C3_HiddenIsWeightedSum ==
  (task = "augmenting" /\ a_pc = "backward") =>
    hidden_states_copy =
      IF a_ratio.enc = 0 THEN Scale(a_ratio.lat, latent_out)
      ELSE IF a_ratio.lat = 0 THEN Scale(a_ratio.enc, encoder_out)
      ELSE Add(Scale(a_ratio.enc, encoder_out), Scale(a_ratio.lat, latent_out))

\* C4: after the pass over the batches, every per-epsilon text list and every
\* per-epsilon probability list of the collected record has exactly one entry
\* per source example, in source order: the entry of that example at that
\* epsilon.
C4_OneEntryPerExampleAndEpsilon ==
  (task = "augmenting" /\ a_pc \in {"table", "done"}) =>
    \A k \in 0..(EpsilonCount - 1) :
      LET expected == [j \in 1..Len(seq_list) |-> GeneratedText(seq_list[j].src, k)]
      IN /\ aug_list[<<"eps", k>>] = PyList(expected)
         /\ aug_list[<<"eps_prob", k>>] = PyList(expected)

\* C5 (as amended): the table that is written has exactly one row per source
\* example the pass collected, and exactly 1 + K columns: the source column
\* seq and K = 11 generated-text columns aug_0..aug_10, each with one cell per
\* row.
C5_TableShape ==
  result_dat.written =>
    /\ result_dat.nrows = a_served
    /\ result_dat.nrows = Len(seq_list)
    /\ Len(result_dat.columns) = 1 + EpsilonCount
    /\ result_dat.columns[1][1] = "seq"
    /\ Cardinality({c \in 1..Len(result_dat.columns) :
                      result_dat.columns[c][1] = "aug"}) = EpsilonCount
    /\ Len(result_dat.cells) = Len(result_dat.columns)
    /\ \A c \in 1..Len(result_dat.cells) :
         Len(result_dat.cells[c]) = result_dat.nrows

\* C5, a table of at least two rows has been written
C5_TableWritten ==
  /\ task = "augmenting" /\ a_pc = "done"
  /\ result_dat.written /\ result_dat.nrows >= 2

\* C5 (as stated): the table that is written has exactly B rows and at least
\* 1 + K generated-text columns.
C5_AtLeastOnePlusKGeneratedColumns ==
  result_dat.written =>
    /\ result_dat.nrows = a_served
    /\ Cardinality({c \in 1..Len(result_dat.columns) :
                      result_dat.columns[c][1] = "aug"}) >= 1 + EpsilonCount

\* C6: in both phases of training the validation pass of an epoch starts
\* right after that epoch's training loop ends (also when debuging_mode cuts
\* the loop to one batch): the step that leaves the training loop enters the
\* validation of the same epoch, validation is entered from nowhere else, and
\* no optimizer steps while it runs.  (A step in which the loop is left by an
\* exception is not an end of the loop.)
C6_ValidationRightAfterTraining ==
  [][(task = "training" /\ t_pc' # "killed") =>
       /\ (t_pc = "aug_train" /\ t_pc' \notin {"aug_train", "raised"}) =>
            (t_pc' = "aug_valid_start" /\ epoch' = epoch)
       /\ (t_pc = "cls_train" /\ t_pc' \notin {"cls_train", "raised"}) =>
            (t_pc' = "cls_valid_start" /\ epoch' = epoch)
       /\ (t_pc = "aug_valid_start") =>
            (t_pc' = "aug_valid" /\ epoch' = epoch /\ t_i' = 0)
       /\ (t_pc = "cls_valid_start") =>
            (t_pc' = "cls_valid" /\ epoch' = epoch /\ t_i' = 0)
       /\ (t_pc' = "aug_valid_start" /\ t_pc # "aug_valid_start") => t_pc = "aug_train"
       /\ (t_pc' = "cls_valid_start" /\ t_pc # "cls_valid_start") => t_pc = "cls_train"
       /\ (t_pc' = "aug_ckpt" /\ t_pc # "aug_ckpt") => t_pc = "aug_valid"
       /\ (t_pc' = "cls_ckpt" /\ t_pc # "cls_ckpt") => t_pc = "cls_valid"
       /\ (t_pc \in {"aug_valid_start", "aug_valid", "cls_valid_start", "cls_valid"}) =>
            /\ epoch' = epoch
            /\ UNCHANGED <<aug_optimizer, cls_optimizer>>
    ]_vars

\* C6, the classifier's validation of epoch 2 runs in debuging_mode, after an
\* augmenter phase that validated too
C6_ValidationReached ==
  /\ task = "training" /\ t_pc = "cls_valid" /\ t_args.debuging_mode
  /\ epoch = 2 /\ cls_optimizer = 2 /\ best_aug_epoch.bound

\* C7: the trainer goes INIT, then augmenter training and validation per
\* augmenter epoch, then classifier training and validation per classifier
\* epoch, then what follows the two loops: it never steps back, every
\* augmenter epoch of the range has run when the classifier phase begins, and
\* no augmenter training step happens from then on.
C7_StateOrder ==
  [][LET Aug == {"aug_epoch", "aug_train", "aug_valid_start", "aug_valid", "aug_ckpt"}
         Cls == {"cls_epoch", "cls_train", "cls_valid_start", "cls_valid", "cls_ckpt"}
         After == {"augmentation", "epsilon", "report", "done"}
         Rank(pc) == IF pc = "resume" THEN 0
                     ELSE IF pc \in Aug THEN 1
                     ELSE IF pc \in Cls THEN 2
                     ELSE IF pc \in After THEN 3
                     ELSE 4
         Order == {<<"resume", "aug_epoch">>,
                   <<"aug_epoch", "aug_train">>, <<"aug_train", "aug_train">>,
                   <<"aug_train", "aug_valid_start">>,
                   <<"aug_valid_start", "aug_valid">>, <<"aug_valid", "aug_valid">>,
                   <<"aug_valid", "aug_ckpt">>, <<"aug_ckpt", "aug_epoch">>,
                   <<"aug_epoch", "cls_epoch">>,
                   <<"cls_epoch", "cls_train">>, <<"cls_train", "cls_train">>,
                   <<"cls_train", "cls_valid_start">>,
                   <<"cls_valid_start", "cls_valid">>, <<"cls_valid", "cls_valid">>,
                   <<"cls_valid", "cls_ckpt">>, <<"cls_ckpt", "cls_epoch">>,
                   <<"cls_epoch", "augmentation">>,
                   <<"augmentation", "report">>, <<"augmentation", "epsilon">>,
                   <<"epsilon", "epsilon">>, <<"epsilon", "report">>,
                   <<"report", "done">>}
     IN (task = "training" /\ t_pc' # "killed") =>
          /\ Rank(t_pc) <= Rank(t_pc')
          /\ t_pc' # "raised" => <<t_pc, t_pc'>> \in Order
          /\ (t_pc = "aug_epoch" /\ t_pc' = "cls_epoch") =>
               \/ t_args.aug_num_epochs <= start_epoch
               \/ epoch = t_args.aug_num_epochs
          /\ Rank(t_pc) >= 2 =>
               /\ aug_model'.params = aug_model.params
               /\ UNCHANGED <<aug_optimizer, aug_scheduler>>
    ]_vars

\* C7, a classifier training step has been taken after two augmenter epochs
C7_ClassifierAfterAugmenter ==
  /\ task = "training" /\ t_pc = "cls_train" /\ cls_optimizer >= 1
  /\ t_args.aug_num_epochs = 2 /\ aug_optimizer >= 2


\* C8: at the end of each validation phase, a mean validation loss strictly
\* below the best so far writes a checkpoint holding this epoch and sets the
\* best-loss/best-epoch record to this epoch; otherwise the checkpoint and
\* the record stay unchanged and the previous best is logged.  The stored
\* checkpoint's epoch equals the best-epoch record, and the best loss never
\* increases and changes nowhere else.
C8_CheckpointOnImprovement ==
  [][(task = "training" /\ t_pc' # "killed") =>
       /\ (t_pc = "aug_ckpt" /\ t_len.valid > 0) =>
            LET mean == LossDiv(val_recon_loss, t_len.valid)
            IN IF LossLess(mean, best_aug_val_loss)
               THEN /\ fs'[AugCheckpointFile].exists
                    /\ Lookup(fs'[AugCheckpointFile].dict, "epoch") = epoch
                    /\ best_aug_val_loss' = mean
                    /\ best_aug_epoch' = Bound(epoch)
               ELSE /\ UNCHANGED <<fs, best_aug_val_loss, best_aug_epoch>>
                    /\ else_log' = [written |-> TRUE,
                                    epoch |-> best_aug_epoch.value,
                                    loss |-> best_aug_val_loss]
                    /\ t_exc' = "none"
       /\ (t_pc = "cls_ckpt" /\ t_len.valid > 0) =>
            LET mean == LossDiv(val_cls_loss, t_len.valid)
            IN IF LossLess(mean, best_cls_val_loss)
               THEN /\ fs'[ClsCheckpointFile].exists
                    /\ Lookup(fs'[ClsCheckpointFile].dict, "epoch") = epoch
                    /\ best_cls_val_loss' = mean
                    /\ best_cls_epoch' = Bound(epoch)
               ELSE /\ UNCHANGED <<fs, best_cls_val_loss, best_cls_epoch>>
                    /\ else_log' = [written |-> TRUE,
                                    epoch |-> best_cls_epoch.value,
                                    loss |-> best_cls_val_loss]
                    /\ t_exc' = "none"
       /\ t_pc # "aug_ckpt" => UNCHANGED <<best_aug_val_loss, best_aug_epoch>>
       /\ t_pc # "cls_ckpt" => UNCHANGED <<best_cls_val_loss, best_cls_epoch>>
       /\ ~LossLess(best_aug_val_loss, best_aug_val_loss')
       /\ ~LossLess(best_cls_val_loss, best_cls_val_loss')
       /\ best_aug_epoch'.bound =>
            /\ fs'[AugCheckpointFile].exists
            /\ Lookup(fs'[AugCheckpointFile].dict, "epoch") = best_aug_epoch'.value
       /\ best_cls_epoch'.bound =>
            /\ fs'[ClsCheckpointFile].exists
            /\ Lookup(fs'[ClsCheckpointFile].dict, "epoch") = best_cls_epoch'.value
    ]_vars

\* C9: with resume set and a checkpoint at the resume path, the resume block
\* reloads it and the epoch loop continues the numbering at checkpoint.epoch.
C9_ResumeContinuesNumbering ==
  [][(task = "training" /\ t_pc = "resume" /\ t_args.resume
        /\ fs[ResumeFile].exists) =>
       /\ t_pc' = "aug_epoch"
       /\ t_exc' = "none"
       /\ t_range' = Lookup(fs[ResumeFile].dict, "epoch")
    ]_vars

\* C10: every checkpoint read is of a path that a checkpoint save of the
\* trainer writes, and reads only keys which that save writes.
C10_ReadsMatchWrites ==
  \A r \in reads :
    \E w \in {<<AugCheckpointFile, KeysOf(AugSnapshot)>>,
              <<ClsCheckpointFile, KeysOf(ClsSnapshot)>>} :
      r[1] = w[1] /\ r[2] \subseteq w[2]

\* C11: a checkpoint write is all-or-nothing: whatever happens to the
\* process, a step leaves each checkpoint file holding the whole snapshot it
\* held before or the whole snapshot being saved, and a checkpoint that was
\* saved is never lost.
C11_CheckpointAllOrNothing ==
  [][task = "training" =>
       /\ fs'[AugCheckpointFile] \in {fs[AugCheckpointFile], FileOf(AugSnapshot)}
       /\ fs'[ClsCheckpointFile] \in {fs[ClsCheckpointFile], FileOf(ClsSnapshot)}
    ]_vars

\* C12: across the augmentation pass, in augmenting (the batch loop) and at
\* the end of training, no parameter of the augmenter or of the classifier
\* changes and no optimizer or scheduler steps; in augmenting the parameters
\* stay the ones loaded from the checkpoint.
C12_NoParameterChange ==
  [][/\ (task = "augmenting" /\ a_pc \in {"batch", "backward", "epsilon", "end_batch", "table"}) =>
          /\ a_aug_model' = a_aug_model
          /\ a_cls_model' = a_cls_model
          /\ a_aug_model'.params = Lookup(fs[AugmentingFile].dict, "aug_model")
          /\ a_cls_model'.params = Lookup(fs[AugmentingFile].dict, "cls_model")
     /\ (task = "training" /\ t_pc \in {"augmentation", "epsilon", "report"} /\ t_pc' # "killed") =>
          /\ aug_model'.params = aug_model.params
          /\ cls_model'.params = cls_model.params
          /\ UNCHANGED <<aug_optimizer, aug_scheduler, cls_optimizer, cls_scheduler>>
    ]_vars

\* C12, augmenting has passed over two batches with gradients computed
C12_PassDone ==
  /\ task = "augmenting" /\ a_pc = "table"
  /\ a_served = 2 /\ a_args.batch_size = 1 /\ Len(seq_list) = 2

\* C13: the target label given to the classifier loss in the augmentation
\* pass is chosen by configuration: the true label when label flipping is not
\* selected, the flipped label when it is.
C13_TargetLabelByConfiguration ==
  (task = "target_label" /\ l_pc = "done") =>
    trg_label = IF label_flipping THEN Flip(b_iter) ELSE b_iter

\* C14: with the base hidden state and the gradient of a batch fixed, the
\* state handed to generate moves away from the base as epsilon grows: from
\* one epsilon of the schedule to the next, the squared Euclidean distance
\* between the handed state and the base does not shrink.
C14_PerturbationGrowsWithEpsilon ==
  [][LET RECURSIVE SumSquares(_)
         SumSquares(t) == IF t = <<>> THEN 0
                          ELSE Head(t) * Head(t) + SumSquares(Tail(t))
     IN (task = "augmenting" /\ a_pc = "epsilon" /\ a_pc' = "epsilon") =>
          /\ base_hidden' = base_hidden
          /\ hidden_states_copy_grad' = hidden_states_copy_grad
          /\ SumSquares(Sub(latent_z', base_hidden'))
               >= SumSquares(Sub(latent_z, base_hidden))
    ]_vars

\* C15: an invalid configuration (an unknown optimizer name, an unknown
\* scheduler name, an invalid ratio weight) is rejected at setup before any
\* data file is opened, and the setup never completes with it.
C15_InvalidConfigurationRejectedFirst ==
  (/\ task = "setup"
   /\ \/ s_args.cls_optimizer \notin {"AdamW", "Adam", "SGD", "Ralamb"}
      \/ s_args.aug_optimizer \notin {"AdamW", "Adam", "SGD", "Ralamb"}
      \/ s_args.cls_scheduler \notin {"constant", "warmup", "reduce_train", "reduce_valid", "lambda"}
      \/ s_args.aug_scheduler \notin {"constant", "warmup", "reduce_train", "reduce_valid", "lambda"}
      \/ s_args.encoder_out_ratio < 0)
  => (s_opened = {} /\ s_pc # "ready")

\* C16: in every ratio configuration the hidden state the classifier reads
\* in augmenting is a leaf that requires gradient, so that after backward its
\* gradient is defined and reading it does not fail.
C16_HiddenIsGradientLeaf ==
  task = "augmenting" =>
    /\ a_pc = "backward" => hidden_is_leaf
    /\ a_exc # "AttributeError"

\* C17: in training the augmenter's parameters change only in an optimizer
\* step of the augmenter's training loop and the classifier's only in one of
\* the classifier's training loop; while one network is trained the other's
\* parameters, optimizer and scheduler are unchanged, and during both
\* validation passes no parameter, optimizer or scheduler changes.
C17_ParametersChangeOnlyInOwnTraining ==
  [][(task = "training" /\ t_pc' # "killed") =>
       /\ aug_model'.params # aug_model.params =>
            (t_pc = "aug_train" /\ aug_optimizer' = aug_optimizer + 1)
       /\ cls_model'.params # cls_model.params =>
            (t_pc = "cls_train" /\ cls_optimizer' = cls_optimizer + 1)
       /\ t_pc = "cls_train" =>
            /\ aug_model'.params = aug_model.params
            /\ UNCHANGED <<aug_optimizer, aug_scheduler>>
       /\ t_pc = "aug_train" =>
            /\ cls_model'.params = cls_model.params
            /\ UNCHANGED <<cls_optimizer, cls_scheduler>>
       /\ t_pc \in {"aug_valid_start", "aug_valid", "aug_ckpt",
                    "cls_valid_start", "cls_valid", "cls_ckpt"} =>
            /\ aug_model'.params = aug_model.params
            /\ cls_model'.params = cls_model.params
            /\ UNCHANGED <<aug_optimizer, aug_scheduler, cls_optimizer, cls_scheduler>>
    ]_vars

\* C17, both networks have been trained and the classifier's validation of an
\* epoch is over
C17_BothTrained ==
  /\ task = "training" /\ t_pc = "cls_ckpt"
  /\ aug_model.params >= 1 /\ cls_model.params >= 1 /\ t_len.valid >= 1

C19_DecoderInputIds ==
  (task = "decoder_input" /\ d_pc \in {"shifted", "decoder"}) =>
    /\ Len(decoder_input_ids) = Len(d_src_input_ids)
    /\ decoder_input_ids[1] = d_start_token_id
    /\ \A i \in 2..Len(d_src_input_ids) :
         decoder_input_ids[i] = IF d_src_input_ids[i - 1] = IgnoreIndex
                                THEN d_pad_token_id
                                ELSE d_src_input_ids[i - 1]
    /\ (d_pc = "decoder" /\ d_caller = "forward") => d_input_ids = decoder_input_ids
    /\ (d_pc = "decoder" /\ d_caller = "generate") => d_input_ids = <<d_start_token_id>>

\* C19, forward has handed the decoder the shifted ids of a row of three
\* whose first id is -100 and whose dropped last id is not
C19_ShiftedRowHanded ==
  /\ task = "decoder_input" /\ d_pc = "decoder" /\ d_caller = "forward"
  /\ Len(d_src_input_ids) = 3
  /\ d_src_input_ids[1] = IgnoreIndex /\ d_src_input_ids[3] # IgnoreIndex
  /\ d_input_ids = <<d_start_token_id, d_pad_token_id, d_src_input_ids[2]>>

\* C19 as stated: the ids handed to the decoder, by forward and by generate,
\* are the shifted source ids.
C19_DecoderInputsAreShiftedSource ==
  (task = "decoder_input" /\ d_pc = "decoder") =>
    /\ Len(d_input_ids) = Len(d_src_input_ids)
    /\ d_input_ids[1] = d_start_token_id
    /\ \A i \in 2..Len(d_src_input_ids) :
         d_input_ids[i] = IF d_src_input_ids[i - 1] = IgnoreIndex
                          THEN d_pad_token_id
                          ELSE d_src_input_ids[i - 1]

\* C20: in each batch of the augmenter's training the steps come in the
\* order: clear gradients, forward pass, total_loss = mmd_loss * scale +
\* reconstruction loss, backward, clipping of the gradient norm exactly when
\* clip_grad_norm > 0, optimizer step, scheduler step; the scheduler steps
\* once per optimizer step, so after n processed batches both have stepped n
\* times.
C20_BatchStepOrder ==
  [][task = "aug_batch" =>
       /\ <<ab_pc, ab_pc'>> \in
            {<<"head", "forward">>, <<"head", "end">>, <<"forward", "loss">>,
             <<"loss", "backward">>, <<"backward", "clip">>,
             <<"backward", "optimizer">>, <<"clip", "optimizer">>,
             <<"optimizer", "scheduler">>, <<"scheduler", "head">>,
             <<"scheduler", "end">>}
       /\ ab_pc' = "forward" => ab_grads' = "none"
       /\ ab_pc = "loss" => ab_total_loss' = ab_mmd * MmdScale + ab_recon
       /\ ab_pc = "backward" =>
            /\ ab_grads = "none" /\ ab_grads' = "computed"
            /\ ab_pc' = "clip" <=> ab_args.clip_grad_norm > 0
       /\ ab_pc = "clip" => ab_grads' = "clipped"
       /\ ab_optimizer' # ab_optimizer =>
            /\ ab_pc = "optimizer" /\ ab_optimizer' = ab_optimizer + 1
            /\ ab_grads = IF ab_args.clip_grad_norm > 0 THEN "clipped" ELSE "computed"
       /\ ab_scheduler' # ab_scheduler =>
            /\ ab_pc = "scheduler" /\ ab_scheduler' = ab_scheduler + 1
            /\ ab_optimizer = ab_scheduler'
       /\ ab_pc = "scheduler" => ab_scheduler' = ab_optimizer
       /\ ab_pc' \in {"head", "end"} =>
            /\ ab_optimizer' = ab_i' /\ ab_scheduler' = ab_i'
    ]_vars

\* C21: the validation loss that is logged and compared for the checkpoint is
\* the mean over the validation batches that were processed: the sum of the
\* per-batch losses divided by the number of batches accumulated, also when
\* debuging_mode stops the validation loop after the first batch.
C21_ValidationLossIsMeanOfProcessed ==
  [][(task = "training" /\ t_pc' \notin {"killed", "raised"}) =>
       /\ t_pc = "aug_ckpt" =>
            /\ t_i >= 1
            /\ val_recon_loss'.num * (val_recon_loss.den * t_i)
                 = val_recon_loss.num * val_recon_loss'.den
       /\ t_pc = "cls_ckpt" =>
            /\ t_i >= 1
            /\ val_cls_loss'.num * (val_cls_loss.den * t_i)
                 = val_cls_loss.num * val_cls_loss'.den
    ]_vars

\* C22: an error raised inside a phase is not caught or retried by main: it
\* leaves main as it was raised, the failed phase is not entered again and
\* no later phase is started; phases are started only in the fixed order
\* augmenter_training, style_transfer, style_transfer_augmenting,
\* augmenting, training, test_textattack, each at most once and only when
\* its flag is set.
C22_ErrorsSurfaceAndPhasesInOrder ==
  [][LET PhaseIndex(p) == CHOOSE k \in 1..Len(PhaseOrder) : PhaseOrder[k] = p
     IN task = "main" =>
          /\ \A i \in 1..Len(m_started') :
               /\ m_args[m_started'[i]]
               /\ \A j \in 1..Len(m_started') :
                    i < j => PhaseIndex(m_started'[i]) < PhaseIndex(m_started'[j])
          /\ (m_pc' = "raised" /\ m_pc # "raised") =>
               /\ m_started' = Append(m_started, m_exc'.phase)
               /\ m_exc'.name \in PhaseExceptions
          /\ m_pc = "raised" => UNCHANGED mvars
          /\ (m_started' # m_started /\ m_pc' # "raised") =>
               /\ m_exc' = NoException
               /\ m_next' = m_next + 1
    ]_vars

\* C22, augmenting has raised after augmenter_training returned, with the
\* flag of training set: training is not started
C22_RaisedInAugmenting ==
  /\ task = "main" /\ m_pc = "raised"
  /\ m_exc = [phase |-> "augmenting", name |-> "RuntimeError"]
  /\ m_started = <<"augmenter_training", "augmenting">>
  /\ m_args["training"]

\* C23: whenever the trainer reads the best-epoch record (in the 'Still ...
\* is better' log and in the final 'Best AUG/CLS Epoch' log) the record has
\* been set by an earlier improving validation of the same phase: no read
\* finds the name unbound, for every sequence of validation losses.
C23_BestEpochSetBeforeRead ==
  task = "training" =>
    /\ t_exc # "UnboundLocalError"
    /\ else_log.written => else_log.epoch >= 1
    /\ t_pc = "done" => (best_aug_epoch.bound /\ best_cls_epoch.bound)

\* C24: when the augmentation pass begins, and while it runs, both the
\* augmenter and the classifier are in evaluation mode; in training this
\* holds for every combination of epoch counts, a phase of zero epochs
\* included.
C24_EvaluationModeInAugmentation ==
  /\ (task = "augmenting" /\ a_pc \in {"batch", "backward", "epsilon", "end_batch", "table"}) =>
       (~a_aug_model.training /\ ~a_cls_model.training)
  /\ (task = "training" /\ t_pc \in {"augmentation", "epsilon"}) =>
       (~aug_model.training /\ ~cls_model.training)

\* C25: the flipped target label is, for every example and every number of
\* labels >= 2, a one-hot row that names a label different from the true
\* one; for two labels it is the complement, and flipping twice gives back
\* the true label.
C25_FlippedLabelIsAnotherLabel ==
  (task = "target_label" /\ l_pc = "done") =>
    /\ \E k \in 1..Len(b_iter) : trg_label = OneHot(Len(b_iter), k)
    /\ trg_label # b_iter
    /\ Len(b_iter) = 2 => \A j \in 1..2 : trg_label[j] = 1 - b_iter[j]
    /\ Flip(trg_label) = b_iter

\* C26: the classifier is fed the same weighted mix of encoder output and
\* latent vector in its training, in its validation and when the
\* augmentation loop of training computes the perturbation gradient: for the
\* same outputs of the augmenter the three inputs are equal.
C26_SameMixEverywhere ==
  task = "cls_input" =>
    \A c1, c2 \in CallSites :
      (ci_input[c1] # NotFed /\ ci_input[c2] # NotFed) => ci_input[c1] = ci_input[c2]

\* (end)
====
